---- MODULE Spec2Model ----
(***************************************************************************)
(* A model of v8wire: the wire primitives (internal/wire), the tag         *)
(* dispatched Deserializer with its object reference table, and the        *)
(* Serializer.                                                             *)
(*                                                                         *)
(* Machine words are tuples of bits, least significant bit first, so that  *)
(* uint64 / uint32 / int arithmetic keeps its width (the platform modelled *)
(* is a 64-bit build: int is 64 bits wide).  Bytes are numbers 0..255.     *)
(* A Go string is the tuple of its runes (a valid UTF-8 string); len(s) is *)
(* the number of UTF-8 bytes of those runes.                               *)
(***************************************************************************)
EXTENDS Integers, Sequences, FiniteSets, TLC

\* ------------------------------------------------------------------------
\* Bounds of the model
\* ------------------------------------------------------------------------
MaxShortLen == 2      \* exhaustive inputs: bodies of at most this many bytes
MaxItems == 2         \* generated containers hold at most this many items
MaxEncodeStack == 6   \* nested writeValue or toGo calls the goroutine stack has room for
MaxCalls == 2         \* Serialize calls of one run

\* ------------------------------------------------------------------------
\* Machine words
\* ------------------------------------------------------------------------
RECURSIVE NatToBits(_, _)
NatToBits(n, w) == IF w = 0 THEN <<>> ELSE <<n % 2>> \o NatToBits(n \div 2, w - 1)

RECURSIVE BitsToNat(_)
BitsToNat(b) == IF b = <<>> THEN 0 ELSE Head(b) + 2 * BitsToNat(Tail(b))

Zero64 == [i \in 1..64 |-> 0]
Zero32 == [i \in 1..32 |-> 0]

\* uint64(x) / int(x) of a narrower unsigned word: zero extension
ZeroExtend(b, w) == [i \in 1..w |-> IF i <= Len(b) THEN b[i] ELSE 0]
\* uint32(x) of a uint64: truncation
Truncate(b, w) == [i \in 1..w |-> b[i]]

NotBits(b) == [i \in 1..Len(b) |-> 1 - b[i]]
XorBits(a, b) == [i \in 1..Len(a) |-> (a[i] + b[i]) % 2]
OrBits(a, b) == [i \in 1..Len(a) |-> IF a[i] + b[i] > 0 THEN 1 ELSE 0]
\* x << k and x >> k (logical) at the width of x
ShlBits(b, k) == [i \in 1..Len(b) |-> IF i > k THEN b[i - k] ELSE 0]
ShrBits(b, k) == [i \in 1..Len(b) |-> IF i + k <= Len(b) THEN b[i + k] ELSE 0]
\* x >> k of a signed word (arithmetic)
SarBits(b, k) == [i \in 1..Len(b) |-> IF i + k <= Len(b) THEN b[i + k] ELSE b[Len(b)]]

\* two's complement word of a (small) integer
IntToBits(i, w) == IF i >= 0 THEN NatToBits(i, w) ELSE NotBits(NatToBits((-i) - 1, w))

\* the word is a number below 2^k
FitsIn(b, k) == \A i \in 1..Len(b) : i > k => b[i] = 0
IsNegative(b) == b[Len(b)] = 1

RECURSIVE AddCarry(_, _, _, _)
AddCarry(a, b, i, c) ==
    IF i > Len(a) THEN <<>>
    ELSE <<(a[i] + b[i] + c) % 2>> \o AddCarry(a, b, i + 1, (a[i] + b[i] + c) \div 2)

\* a + b with wrap-around at the width of a
AddBits(a, b) == AddCarry(a, b, 1, 0)

\* a > n for a signed 64-bit a and a small non-negative n
SignedGreater(a, n) ==
    IF IsNegative(a) THEN FALSE
    ELSE IF ~FitsIn(a, 30) THEN TRUE
    ELSE BitsToNat(a) > n

\* ------------------------------------------------------------------------
\* Errors (the sentinel an error value wraps; NoErr is nil)
\* ------------------------------------------------------------------------
NoErr == "nil"
ErrUnexpectedEOF == "wire.ErrUnexpectedEOF"
ErrVarintOverflow == "wire.ErrVarintOverflow"
ErrInvalidHeader == "ErrInvalidHeader"
ErrUnsupportedVersion == "ErrUnsupportedVersion"
ErrUnexpectedTag == "ErrUnexpectedTag"
ErrMalformedData == "ErrMalformedData"
ErrMaxDepthExceeded == "ErrMaxDepthExceeded"
ErrMaxSizeExceeded == "ErrMaxSizeExceeded"
ErrInvalidReference == "ErrInvalidReference"
\* a run-time panic of the Go runtime (slice bounds out of range)
Panic == "panic"

\* ------------------------------------------------------------------------
\* wire.Reader: every operation takes the data and the cursor and returns
\* [err, pos, val]: the error, the cursor afterwards and the result
\* ------------------------------------------------------------------------
Result(e, p, v) == [err |-> e, pos |-> p, val |-> v]

Peek(data, pos) ==
    IF pos >= Len(data) THEN Result(ErrUnexpectedEOF, pos, 0)
    ELSE Result(NoErr, pos, data[pos + 1])

ReadByte(data, pos) ==
    IF pos >= Len(data) THEN Result(ErrUnexpectedEOF, pos, 0)
    ELSE Result(NoErr, pos + 1, data[pos + 1])

\* n is an int (a signed 64-bit word).  r.pos+n wraps; the slice expression
\* r.data[r.pos : r.pos+n] panics when its bounds are out of range.
ReadBytes(data, pos, n) ==
    LET end == AddBits(NatToBits(pos, 64), n) IN
    IF SignedGreater(end, Len(data)) THEN Result(ErrUnexpectedEOF, pos, <<>>)
    ELSE IF IsNegative(end) \/ BitsToNat(end) < pos THEN Result(Panic, pos, <<>>)
    ELSE Result(NoErr, BitsToNat(end), SubSeq(data, pos + 1, BitsToNat(end)))

\* bits shift+1 .. shift+7 of the result come from the low 7 bits of b
Low7At(b, shift) ==
    [i \in 1..64 |-> IF i > shift /\ i <= shift + 7
                     THEN ((b % 128) \div (2 ^ (i - shift - 1))) % 2 ELSE 0]

RECURSIVE ReadVarintLoop(_, _, _, _)
\* ReadVarintLoop testing the shift alone before it shifts
ReadVarintLoop_ShiftOnly(data, pos, result, shift) ==
    IF pos >= Len(data) THEN Result(ErrUnexpectedEOF, pos, Zero64)
    ELSE LET b == data[pos + 1] IN
         IF shift >= 64
         THEN Result(ErrVarintOverflow, pos + 1, Zero64)
         ELSE LET r == OrBits(result, Low7At(b, shift)) IN
              IF b \div 128 = 0 THEN Result(NoErr, pos + 1, r)
              ELSE ReadVarintLoop(data, pos + 1, r, shift + 7)

ReadVarintLoop(data, pos, result, shift) ==
    IF pos >= Len(data) THEN Result(ErrUnexpectedEOF, pos, Zero64)
    ELSE LET b == data[pos + 1] IN
         IF shift >= 64 \/ (shift = 63 /\ b > 1)
         THEN Result(ErrVarintOverflow, pos + 1, Zero64)
         ELSE LET r == OrBits(result, Low7At(b, shift)) IN
              IF b \div 128 = 0 THEN Result(NoErr, pos + 1, r)
              ELSE ReadVarintLoop(data, pos + 1, r, shift + 7)

ReadVarint(data, pos) == ReadVarintLoop(data, pos, Zero64, 0)

ReadVarint32(data, pos) ==
    LET v == ReadVarint(data, pos) IN
    IF v.err # NoErr THEN Result(v.err, v.pos, Zero32)
    ELSE IF ~FitsIn(v.val, 32) THEN Result(ErrVarintOverflow, v.pos, Zero32)
    ELSE Result(NoErr, v.pos, Truncate(v.val, 32))

\* int32(n>>1) ^ -int32(n&1)
ZigZagDecode32(n) == XorBits(ShrBits(n, 1), [i \in 1..32 |-> n[1]])

ReadZigZag32(data, pos) ==
    LET v == ReadVarint32(data, pos) IN
    IF v.err # NoErr THEN Result(v.err, v.pos, Zero32)
    ELSE Result(NoErr, v.pos, ZigZagDecode32(v.val))

\* the double is kept as its 8 bytes (math.Float64frombits is a bijection)
ReadDouble(data, pos) ==
    IF pos + 8 > Len(data) THEN Result(ErrUnexpectedEOF, pos, <<>>)
    ELSE Result(NoErr, pos + 8, SubSeq(data, pos + 1, pos + 8))

\* the cursor after AlignTo(2)
AlignTo2(data, pos) ==
    IF (pos % 2) # 0 /\ pos + (2 - (pos % 2)) <= Len(data) THEN pos + (2 - (pos % 2)) ELSE pos

\* length is an int made from a uint32: never negative on a 64-bit build
ReadOneByteString(data, pos, length) ==
    IF FitsIn(length, 0) THEN Result(NoErr, pos, <<>>)
    ELSE ReadBytes(data, pos, length)

\* utf16.Decode: a surrogate pair becomes one rune, an unpaired surrogate
\* becomes U+FFFD
RECURSIVE Utf16Decode(_)
Utf16Decode(u) ==
    IF u = <<>> THEN <<>>
    ELSE IF u[1] >= 55296 /\ u[1] < 56320 /\ Len(u) >= 2 /\ u[2] >= 56320 /\ u[2] < 57344
         THEN <<65536 + (u[1] - 55296) * 1024 + (u[2] - 56320)>> \o Utf16Decode(SubSeq(u, 3, Len(u)))
    ELSE IF u[1] >= 55296 /\ u[1] < 57344
         THEN <<65533>> \o Utf16Decode(Tail(u))
    ELSE <<u[1]>> \o Utf16Decode(Tail(u))

\* length is the number of code units, an int made from a uint32 / 2
ReadTwoByteString(data, pos, length) ==
    IF FitsIn(length, 0) THEN Result(NoErr, pos, <<>>)
    ELSE LET p == AlignTo2(data, pos) IN
         IF ~FitsIn(length, 29) \/ p + BitsToNat(length) * 2 > Len(data)
         THEN Result(ErrUnexpectedEOF, p, <<>>)
         ELSE LET n == BitsToNat(length)
                  u16 == [i \in 1..n |-> data[p + 2 * i - 1] + 256 * data[p + 2 * i]]
              IN Result(NoErr, p + 2 * n, Utf16Decode(u16))

\* ------------------------------------------------------------------------
\* tags.go
\* ------------------------------------------------------------------------
tagVersion == 255
tagNull == 48
tagUndefined == 95
tagTrue == 84
tagFalse == 70
tagInt32 == 73
tagUint32 == 85
tagDouble == 78
tagBigInt == 90
tagDate == 68
tagOneByteString == 34
tagTwoByteString == 99
tagBeginJSObject == 111
tagEndJSObject == 123
tagBeginDenseArray == 65
tagEndDenseArray == 36
tagBeginSparseArray == 97
tagEndSparseArray == 64
tagHole == 45
tagObjectReference == 94
tagBeginMap == 59
tagEndMap == 58
tagBeginSet == 39
tagEndSet == 44
tagArrayBuffer == 66
tagResizableArrayBuffer == 126
tagArrayBufferTransfer == 116
tagSharedArrayBuffer == 117
tagTypedArray == 92
tagRegExp == 82
tagNumberObject == 110
tagBigIntObject == 122
tagTrueObject == 121
tagFalseObject == 120
tagStringObject == 115
tagError == 114
tagPadding == 0
MinVersion == 13
MaxVersion == 15

errorTagMessage == 109
errorTagStack == 115
errorTagCause == 99
errorTagEnd == 46
errorTypeErrorWithMessage == 109
errorTypeEvalError == 69
errorTypeRangeError == 82
errorTypeReferenceError == 70
errorTypeSyntaxError == 83
errorTypeTypeError == 84
errorTypeURIError == 85

DefaultMaxDepth == 1000
DefaultMaxArrayLen == 10000000
DefaultMaxObjectKeys == 1000000

\* ------------------------------------------------------------------------
\* types.go: a Value is [typ, data]; data is a tuple of numbers:
\*   Bool <<0 or 1>>, Int32 / Uint32 the 32 bits, Double the 8 bytes,
\*   BigInt <<sign>> \o the big-endian magnitude bytes (big.Int: no leading
\*   zero byte, zero has no bytes), String its runes, Date <<seconds, nanoseconds>>
\*   since the epoch, ArrayBuffer its bytes,
\*   Object <<address of the map>>, Array <<address of the backing array, len>>
\*   (the slice header; cap is the backing array's), and <<address>> of the
\*   struct for Map, Set, RegExp, Error, TypedArray and BoxedPrimitive.
\* ------------------------------------------------------------------------
Val(t, d) == [typ |-> t, data |-> d]
Undefined == Val("TypeUndefined", <<>>)
Null == Val("TypeNull", <<>>)
Bool(b) == Val("TypeBool", <<IF b THEN 1 ELSE 0>>)
Int32(n) == Val("TypeInt32", n)
Uint32(n) == Val("TypeUint32", n)
Double(f) == Val("TypeDouble", f)
BigInt(neg, mag) == Val("TypeBigInt", <<IF neg THEN 1 ELSE 0>> \o mag)
String(s) == Val("TypeString", s)
Date(t) == Val("TypeDate", t)
Hole == Val("TypeHole", <<>>)
\* Value{}: the zero Value
ZeroValue == Val("TypeUndefined", <<>>)

IsNumber(v) == v.typ \in {"TypeInt32", "TypeUint32", "TypeDouble"}

\* heap cells
MapCell(m) == [kind |-> "map", m |-> m]
ArrayCell(cap, dflt, at) == [kind |-> "array", cap |-> cap, dflt |-> dflt, at |-> at]
JSMapCell(entries) == [kind |-> "JSMap", Entries |-> entries]
JSSetCell(values) == [kind |-> "JSSet", Values |-> values]
RegExpCell(pattern, flags) == [kind |-> "RegExp", Pattern |-> pattern, Flags |-> flags]
JSErrorCell(name, message, stack, cause) ==
    [kind |-> "JSError", Name |-> name, Message |-> message, Stack |-> stack, Cause |-> cause]
BoxedCell(t, v) == [kind |-> "BoxedPrimitive", PrimitiveType |-> t, Value |-> v]
ViewCell(buf, t) ==
    [kind |-> "ArrayBufferView", Buffer |-> buf, ByteOffset |-> 0, ByteLength |-> Len(buf), Type |-> t]

\* element i (from 0) of a backing array
ElemAt(cell, i) == IF i \in DOMAIN cell.at THEN cell.at[i] ELSE cell.dflt
\* v.AsArray(): the elements the slice header of v spans
AsArray(h, v) == [i \in 1..v.data[2] |-> ElemAt(h[v.data[1]], i - 1)]

\* ------------------------------------------------------------------------
\* Deserializer: the handlers that read no nested value.  Each returns
\* [err, pos, val, tabled, cells]: the error, the cursor afterwards, the Value,
\* whether the Value is appended to d.objects, and the structs it allocates
\* (a struct allocated here gets the address hlen + 1)
\* ------------------------------------------------------------------------
Leaf(e, p, v, t, c) == [err |-> e, pos |-> p, val |-> v, tabled |-> t, cells |-> c]
LeafErr(e, p) == Leaf(e, p, ZeroValue, FALSE, <<>>)

\* readInt32 leaving the cursor on the tag it was dispatched on
readInt32_Rewind(data, pos) ==
    LET n == ReadZigZag32(data, pos) IN
    IF n.err # NoErr THEN LeafErr(n.err, n.pos)
    ELSE Leaf(NoErr, pos - 1, Int32(n.val), FALSE, <<>>)

readInt32(data, pos) ==
    LET n == ReadZigZag32(data, pos) IN
    IF n.err # NoErr THEN LeafErr(n.err, n.pos)
    ELSE Leaf(NoErr, n.pos, Int32(n.val), FALSE, <<>>)

readUint32(data, pos) ==
    LET n == ReadVarint32(data, pos) IN
    IF n.err # NoErr THEN LeafErr(n.err, n.pos)
    ELSE Leaf(NoErr, n.pos, Uint32(n.val), FALSE, <<>>)

readDouble(data, pos) ==
    LET f == ReadDouble(data, pos) IN
    IF f.err # NoErr THEN LeafErr(f.err, f.pos)
    ELSE Leaf(NoErr, f.pos, Double(f.val), FALSE, <<>>)

Reverse(s) == [i \in 1..Len(s) |-> s[Len(s) + 1 - i]]

\* big.Int.SetBytes: the big-endian magnitude without leading zero bytes
RECURSIVE SetBytes(_)
SetBytes(b) == IF b # <<>> /\ Head(b) = 0 THEN SetBytes(Tail(b)) ELSE b

\* readBigInt handing the bytes to SetBytes in wire order
readBigInt_NoReverse(data, pos) ==
    LET bitfield == ReadVarint(data, pos) IN
    IF bitfield.err # NoErr THEN LeafErr(bitfield.err, bitfield.pos)
    ELSE LET negative == bitfield.val[1] = 1
             byteLength == ShrBits(bitfield.val, 1)
         IN IF FitsIn(byteLength, 0) THEN Leaf(NoErr, bitfield.pos, BigInt(FALSE, <<>>), FALSE, <<>>)
            ELSE LET bytes == ReadBytes(data, bitfield.pos, byteLength) IN
                 IF bytes.err # NoErr THEN LeafErr(bytes.err, bytes.pos)
                 ELSE LET mag == SetBytes(bytes.val) IN
                      Leaf(NoErr, bytes.pos, BigInt(negative /\ mag # <<>>, mag), FALSE, <<>>)

readBigInt(data, pos) ==
    LET bitfield == ReadVarint(data, pos) IN
    IF bitfield.err # NoErr THEN LeafErr(bitfield.err, bitfield.pos)
    ELSE LET negative == bitfield.val[1] = 1
             byteLength == ShrBits(bitfield.val, 1)
         IN IF FitsIn(byteLength, 0) THEN Leaf(NoErr, bitfield.pos, BigInt(FALSE, <<>>), FALSE, <<>>)
            ELSE LET bytes == ReadBytes(data, bitfield.pos, byteLength) IN
                 IF bytes.err # NoErr THEN LeafErr(bytes.err, bytes.pos)
                 ELSE LET mag == SetBytes(Reverse(bytes.val)) IN
                      Leaf(NoErr, bytes.pos, BigInt(negative /\ mag # <<>>, mag), FALSE, <<>>)

readOneByteString(data, pos) ==
    LET length == ReadVarint32(data, pos) IN
    IF length.err # NoErr THEN LeafErr(length.err, length.pos)
    ELSE LET s == ReadOneByteString(data, length.pos, ZeroExtend(length.val, 64)) IN
         IF s.err # NoErr THEN LeafErr(s.err, s.pos)
         ELSE Leaf(NoErr, s.pos, String(s.val), TRUE, <<>>)

readTwoByteString(data, pos) ==
    LET byteLength == ReadVarint32(data, pos) IN
    IF byteLength.err # NoErr THEN LeafErr(byteLength.err, byteLength.pos)
    ELSE LET utf16Length == ShrBits(ZeroExtend(byteLength.val, 64), 1)
             s == ReadTwoByteString(data, byteLength.pos, utf16Length)
         IN IF s.err # NoErr THEN LeafErr(s.err, s.pos)
            ELSE Leaf(NoErr, s.pos, String(s.val), TRUE, <<>>)

\* time.Unix(sec, nsec) for sec = int64(ms / 1000) and
\* nsec = int64((ms - float64(sec) * 1000) * 1e6), as <<seconds, nanoseconds>>
TimeOfMillis(ms) ==
    CASE ms = <<0, 0, 0, 0, 0, 0, 0, 0>> -> <<0, 0>>
      [] ms = <<0, 0, 0, 0, 0, 0, 0, 128>> -> <<0, 0>>
      [] ms = <<0, 0, 0, 0, 0, 0, 224, 63>> -> <<0, 500000>>
      [] ms = <<0, 0, 0, 0, 0, 0, 240, 63>> -> <<0, 1000000>>
      [] ms = <<0, 0, 0, 0, 0, 0, 0, 64>> -> <<0, 2000000>>
      [] ms = <<0, 0, 0, 0, 128, 132, 46, 65>> -> <<1000, 0>>

readDate(data, pos) ==
    LET ms == ReadDouble(data, pos) IN
    IF ms.err # NoErr THEN LeafErr(ms.err, ms.pos)
    ELSE Leaf(NoErr, ms.pos, Date(TimeOfMillis(ms.val)), TRUE, <<>>)

\* readObjectReference counting the ID from the end of the table
readObjectReference_FromEnd(data, pos, objs) ==
    LET id == ReadVarint32(data, pos) IN
    IF id.err # NoErr THEN LeafErr(id.err, id.pos)
    ELSE IF ~FitsIn(id.val, 30) \/ BitsToNat(id.val) >= Len(objs)
         THEN LeafErr(ErrInvalidReference, id.pos)
    ELSE Leaf(NoErr, id.pos, objs[Len(objs) - BitsToNat(id.val)], FALSE, <<>>)

\* int(id) >= len(d.objects), id a uint32
readObjectReference(data, pos, objs) ==
    LET id == ReadVarint32(data, pos) IN
    IF id.err # NoErr THEN LeafErr(id.err, id.pos)
    ELSE IF ~FitsIn(id.val, 30) \/ BitsToNat(id.val) >= Len(objs)
         THEN LeafErr(ErrInvalidReference, id.pos)
    ELSE Leaf(NoErr, id.pos, objs[BitsToNat(id.val) + 1], FALSE, <<>>)

readArrayBuffer(data, pos) ==
    LET byteLength == ReadVarint32(data, pos) IN
    IF byteLength.err # NoErr THEN LeafErr(byteLength.err, byteLength.pos)
    ELSE LET d == ReadBytes(data, byteLength.pos, ZeroExtend(byteLength.val, 64)) IN
         IF d.err # NoErr THEN LeafErr(d.err, d.pos)
         ELSE Leaf(NoErr, d.pos, Val("TypeArrayBuffer", d.val), TRUE, <<>>)

\* the name of a typed array kind; an unknown kind n is named "TypedArray(n)"
typeName(arrayType) ==
    CASE arrayType = 0 -> <<"Int8Array">>
      [] arrayType = 1 -> <<"Uint8Array">>
      [] arrayType = 2 -> <<"Uint8ClampedArray">>
      [] arrayType = 3 -> <<"Int16Array">>
      [] arrayType = 4 -> <<"Uint16Array">>
      [] arrayType = 5 -> <<"Int32Array">>
      [] arrayType = 6 -> <<"Uint32Array">>
      [] arrayType = 7 -> <<"Float32Array">>
      [] arrayType = 8 -> <<"Float64Array">>
      [] arrayType = 9 -> <<"DataView">>
      [] arrayType = 10 -> <<"Float16Array">>
      [] arrayType = 11 -> <<"BigInt64Array">>
      [] arrayType = 12 -> <<"BigUint64Array">>
      [] OTHER -> <<"TypedArray(%d)", arrayType>>

\* readTypedArray refusing an arrayType that has no name
readTypedArray_RefuseUnknown(data, pos, hlen) ==
    LET arrayType == ReadByte(data, pos) IN
    IF arrayType.err # NoErr THEN LeafErr(arrayType.err, arrayType.pos)
    ELSE LET byteLength == ReadVarint32(data, arrayType.pos) IN
         IF byteLength.err # NoErr THEN LeafErr(byteLength.err, byteLength.pos)
         ELSE LET d == ReadBytes(data, byteLength.pos, ZeroExtend(byteLength.val, 64)) IN
              IF d.err # NoErr THEN LeafErr(d.err, d.pos)
              ELSE IF arrayType.val > 12 THEN LeafErr(ErrUnexpectedTag, d.pos)
              ELSE Leaf(NoErr, d.pos, Val("TypeTypedArray", <<hlen + 1>>), TRUE,
                        <<ViewCell(d.val, typeName(arrayType.val))>>)

readTypedArray(data, pos, hlen) ==
    LET arrayType == ReadByte(data, pos) IN
    IF arrayType.err # NoErr THEN LeafErr(arrayType.err, arrayType.pos)
    ELSE LET byteLength == ReadVarint32(data, arrayType.pos) IN
         IF byteLength.err # NoErr THEN LeafErr(byteLength.err, byteLength.pos)
         ELSE LET d == ReadBytes(data, byteLength.pos, ZeroExtend(byteLength.val, 64)) IN
              IF d.err # NoErr THEN LeafErr(d.err, d.pos)
              ELSE Leaf(NoErr, d.pos, Val("TypeTypedArray", <<hlen + 1>>), TRUE,
                        <<ViewCell(d.val, typeName(arrayType.val))>>)

readNumberObject(data, pos, hlen) ==
    LET f == ReadDouble(data, pos) IN
    IF f.err # NoErr THEN LeafErr(f.err, f.pos)
    ELSE Leaf(NoErr, f.pos, Val("TypeBoxedPrimitive", <<hlen + 1>>), TRUE,
              <<BoxedCell("TypeDouble", Double(f.val))>>)

readTrueObject(pos, hlen) ==
    Leaf(NoErr, pos, Val("TypeBoxedPrimitive", <<hlen + 1>>), TRUE,
         <<BoxedCell("TypeBool", Bool(TRUE))>>)

readFalseObject(pos, hlen) ==
    Leaf(NoErr, pos, Val("TypeBoxedPrimitive", <<hlen + 1>>), TRUE,
         <<BoxedCell("TypeBool", Bool(FALSE))>>)

\* the tags readValue hands to a handler that reads nested values
NestedTags ==
    {tagBeginJSObject, tagBeginDenseArray, tagBeginSparseArray, tagBeginMap, tagBeginSet,
     tagRegExp, tagStringObject, tagBigIntObject, tagError}

handlerOf(tag) ==
    CASE tag = tagBeginJSObject -> "readObject"
      [] tag = tagBeginDenseArray -> "readDenseArray"
      [] tag = tagBeginSparseArray -> "readSparseArray"
      [] tag = tagBeginMap -> "readMap"
      [] tag = tagBeginSet -> "readSet"
      [] tag = tagRegExp -> "readRegExp"
      [] tag = tagStringObject -> "readStringObject"
      [] tag = tagBigIntObject -> "readBigIntObject"
      [] tag = tagError -> "readError"

\* the switch with a case that reads a ResizableArrayBuffer as an ArrayBuffer
dispatchLeaf_ResizableAsBuffer(tag, data, pos, objs, hlen) ==
    CASE tag = tagNull -> Leaf(NoErr, pos, Null, FALSE, <<>>)
      [] tag = tagUndefined -> Leaf(NoErr, pos, Undefined, FALSE, <<>>)
      [] tag = tagTrue -> Leaf(NoErr, pos, Bool(TRUE), FALSE, <<>>)
      [] tag = tagFalse -> Leaf(NoErr, pos, Bool(FALSE), FALSE, <<>>)
      [] tag = tagHole -> Leaf(NoErr, pos, Hole, FALSE, <<>>)
      [] tag = tagInt32 -> readInt32(data, pos)
      [] tag = tagUint32 -> readUint32(data, pos)
      [] tag = tagDouble -> readDouble(data, pos)
      [] tag = tagBigInt -> readBigInt(data, pos)
      [] tag = tagOneByteString -> readOneByteString(data, pos)
      [] tag = tagTwoByteString -> readTwoByteString(data, pos)
      [] tag = tagDate -> readDate(data, pos)
      [] tag = tagObjectReference -> readObjectReference(data, pos, objs)
      [] tag = tagArrayBuffer -> readArrayBuffer(data, pos)
      [] tag = tagResizableArrayBuffer -> readArrayBuffer(data, pos)
      [] tag = tagTypedArray -> readTypedArray(data, pos, hlen)
      [] tag = tagNumberObject -> readNumberObject(data, pos, hlen)
      [] tag = tagTrueObject -> readTrueObject(pos, hlen)
      [] tag = tagFalseObject -> readFalseObject(pos, hlen)
      [] OTHER -> LeafErr(ErrUnexpectedTag, pos)

\* the switch of readValue for the tags whose handler reads no nested value;
\* pos is the cursor after the tag byte
dispatchLeaf(tag, data, pos, objs, hlen) ==
    CASE tag = tagNull -> Leaf(NoErr, pos, Null, FALSE, <<>>)
      [] tag = tagUndefined -> Leaf(NoErr, pos, Undefined, FALSE, <<>>)
      [] tag = tagTrue -> Leaf(NoErr, pos, Bool(TRUE), FALSE, <<>>)
      [] tag = tagFalse -> Leaf(NoErr, pos, Bool(FALSE), FALSE, <<>>)
      [] tag = tagHole -> Leaf(NoErr, pos, Hole, FALSE, <<>>)
      [] tag = tagInt32 -> readInt32(data, pos)
      [] tag = tagUint32 -> readUint32(data, pos)
      [] tag = tagDouble -> readDouble(data, pos)
      [] tag = tagBigInt -> readBigInt(data, pos)
      [] tag = tagOneByteString -> readOneByteString(data, pos)
      [] tag = tagTwoByteString -> readTwoByteString(data, pos)
      [] tag = tagDate -> readDate(data, pos)
      [] tag = tagObjectReference -> readObjectReference(data, pos, objs)
      [] tag = tagArrayBuffer -> readArrayBuffer(data, pos)
      [] tag = tagTypedArray -> readTypedArray(data, pos, hlen)
      [] tag = tagNumberObject -> readNumberObject(data, pos, hlen)
      [] tag = tagTrueObject -> readTrueObject(pos, hlen)
      [] tag = tagFalseObject -> readFalseObject(pos, hlen)
      [] OTHER -> LeafErr(ErrUnexpectedTag, pos)

\* ------------------------------------------------------------------------
\* State
\* ------------------------------------------------------------------------
VARIABLES
    data,      \* Deserializer.reader.data: the input
    opts,      \* maxDepth, maxSize, maxArrayLen, maxObjectKeys
    pos,       \* Deserializer.reader.pos
    version,   \* Deserializer.version
    depth,     \* Deserializer.depth
    objects,   \* Deserializer.objects: the reference table; ID i is objects[i + 1]
    heap,      \* the maps, backing arrays and structs Values point to
    stack,     \* the active readValue calls, the innermost last
    ret,       \* the Value the last completed nested readValue returned
    dstate,    \* "new", "header", "running", "done", "failed", "panicked"
    derr,      \* the error Deserialize returned
    result,    \* the Value Deserialize returned
    objTag,    \* history: for each table entry, the offset of its tag byte
    deepest,   \* history: the largest number of readValue calls active at once
    ev,        \* history: what the last step read
    orig,      \* <<v>>: the Value the first Serialize call is given; <<>>: a decode comes first
    buf,       \* Serializer.writer.buf
    estack,    \* the active writeValue calls, the innermost last
    estate,    \* "idle", "running", "done", "failed", "panicked", "overflow"
    eerr,      \* the error Serialize returned
    arg,       \* the Value the last Serialize call was given
    outs,      \* history: the bytes the Serialize calls returned
    calls,     \* history: the number of Serialize calls
    fed,       \* history: the number of Serialize outputs given to Deserialize
    tagsRead,  \* history: the offsets of the tag bytes readValue has dispatched on
    valid,     \* what IsValidV8Data(data) returned ("true", "false"); "unset" before the call
    gostack,   \* the active toGo calls, the innermost last
    gostate,   \* "idle", "running", "done", "panicked", "overflow"
    goret,     \* the Go type of what the last completed toGo call returned
    writer,    \* the writer.buf of a Serializer that NewSerializer made once
    returned,  \* history: for each call of its Serialize method, v, err and the
               \* length of the slice returned, which shares writer's array
    wbuf,      \* wire.Writer.buf of a Writer used on its own
    wrote,     \* history: <<u>> once WriteVarint(u) has written wbuf
    rdata,     \* wire.Reader.data of a Reader used on its own
    rpos,      \* wire.Reader.pos, an int (a signed 64-bit word)
    rstate,    \* "none", "open", "panicked"
    rof,       \* history: <<u>> when rdata is what WriteVarint(u) wrote
    rlast,     \* history: the last Reader call, its argument, the cursor before, what it returned
    nops       \* history: the number of Reader calls

decVars == <<data, opts, pos, version, depth, objects, heap, stack, ret, dstate, derr,
             result, objTag, deepest, ev, tagsRead, valid>>

encVars == <<orig, buf, estack, estate, eerr, arg, outs, calls, fed>>

goVars == <<gostack, gostate, goret>>

methVars == <<writer, returned>>

wireVars == <<wbuf, wrote, rdata, rpos, rstate, rof, rlast, nops>>

vars == <<decVars, encVars, goVars, methVars, wireVars>>

NoEvent == [op |-> "none"]

\* one readValue call and the handler it dispatched to, with the handler's locals
NewFrame ==
    [fn |-> "readValue", pc |-> "enter", tagpos |-> 0, idx |-> 0, ptr |-> 0,
     n |-> 0, i |-> 0, key |-> <<>>, acc |-> <<>>]

Top == stack[Len(stack)]
SetTop(f) == [stack EXCEPT ![Len(stack)] = f]
\* the handler goes on at pc once the nested d.readValue() has returned
Call(pc) == Append(SetTop([Top EXCEPT !.pc = pc]), NewFrame)
At(fn, pc) == dstate = "running" /\ stack # <<>> /\ Top.fn = fn /\ Top.pc = pc

\* a step that neither returns nor fails
Goes(p, d, o, ot, h, s) ==
    /\ pos' = p /\ depth' = d /\ objects' = o /\ objTag' = ot /\ heap' = h /\ stack' = s
    /\ UNCHANGED <<data, opts, version, ret, dstate, derr, result>>
    /\ UNCHANGED <<encVars, goVars, methVars, wireVars>>

\* an error return: every caller returns it at once and the deferred d.depth--
\* of each call that got past the depth check runs; a panic unwinds the same way
Fail(e, p, d) ==
    /\ pos' = p /\ depth' = d /\ stack' = <<>>
    /\ dstate' = IF e = Panic THEN "panicked" ELSE "failed"
    /\ derr' = e
    /\ UNCHANGED <<data, opts, version, objects, objTag, heap, ret, result>>
    /\ UNCHANGED <<encVars, goVars, methVars, wireVars>>

\* Return without the deferred d.depth--
Return_NoDecrement(v, p, o, ot, h) ==
    /\ pos' = p /\ objects' = o /\ objTag' = ot /\ heap' = h
    /\ depth' = depth
    /\ stack' = SubSeq(stack, 1, Len(stack) - 1)
    /\ IF Len(stack) = 1
       THEN dstate' = "done" /\ result' = v /\ ret' = ret
       ELSE dstate' = dstate /\ result' = result /\ ret' = v
    /\ UNCHANGED <<data, opts, version, derr>>
    /\ UNCHANGED <<encVars, goVars, methVars, wireVars>>

\* the handler returns v through readValue, whose deferred d.depth-- runs
Return(v, p, o, ot, h) ==
    /\ pos' = p /\ objects' = o /\ objTag' = ot /\ heap' = h
    /\ depth' = depth - 1
    /\ stack' = SubSeq(stack, 1, Len(stack) - 1)
    /\ IF Len(stack) = 1
       THEN dstate' = "done" /\ result' = v /\ ret' = ret
       ELSE dstate' = dstate /\ result' = result /\ ret' = v
    /\ UNCHANGED <<data, opts, version, derr>>
    /\ UNCHANGED <<encVars, goVars, methVars, wireVars>>

\* ------------------------------------------------------------------------
\* Deserializer.Deserialize and readHeader
\* ------------------------------------------------------------------------
\* IsValidV8Data(data): a bare first byte test and a look at the second byte
IsValidV8Data(d) ==
    IF Len(d) < 2 THEN FALSE
    ELSE IF d[1] # tagVersion THEN FALSE
    ELSE IF d[2] >= 128 THEN TRUE
    ELSE d[2] >= MinVersion /\ d[2] <= MaxVersion

\* the caller asks IsValidV8Data about the input it is about to decode
IsValidV8DataCall ==
    /\ dstate = "new" /\ valid = "unset"
    /\ valid' = IF IsValidV8Data(data) THEN "true" ELSE "false"
    /\ UNCHANGED <<data, opts, pos, version, depth, objects, heap, stack, ret, dstate, derr,
                   result, objTag, deepest, ev, tagsRead>>
    /\ UNCHANGED <<encVars, goVars, methVars, wireVars>>

Deserialize ==
    /\ dstate = "new" /\ valid # "unset"
    /\ IF opts.maxSize > 0 /\ Len(data) > opts.maxSize
       THEN dstate' = "failed" /\ derr' = ErrMaxSizeExceeded
       ELSE dstate' = "header" /\ derr' = derr
    /\ UNCHANGED <<data, opts, pos, version, depth, objects, heap, stack, ret, result,
                   objTag, deepest, ev, tagsRead, valid>>
    /\ UNCHANGED <<encVars, goVars, methVars, wireVars>>

\* readHeader without the test of the version against MinVersion and MaxVersion
readHeader_AnyVersion(d, p) ==
    LET tag == ReadByte(d, p) IN
    IF tag.err # NoErr THEN Result(ErrInvalidHeader, tag.pos, Zero32)
    ELSE IF tag.val # tagVersion THEN Result(ErrInvalidHeader, tag.pos, Zero32)
    ELSE LET v == ReadVarint32(d, tag.pos) IN
         IF v.err # NoErr THEN Result(ErrInvalidHeader, v.pos, Zero32)
         ELSE Result(NoErr, v.pos, v.val)

\* the outcome of readHeader: [err, pos, val] with val the version
readHeader(d, p) ==
    LET tag == ReadByte(d, p) IN
    IF tag.err # NoErr THEN Result(ErrInvalidHeader, tag.pos, Zero32)
    ELSE IF tag.val # tagVersion THEN Result(ErrInvalidHeader, tag.pos, Zero32)
    ELSE LET v == ReadVarint32(d, tag.pos) IN
         IF v.err # NoErr THEN Result(ErrInvalidHeader, v.pos, Zero32)
         ELSE IF ~FitsIn(v.val, 30) \/ BitsToNat(v.val) < MinVersion \/ BitsToNat(v.val) > MaxVersion
              THEN Result(ErrUnsupportedVersion, v.pos, Zero32)
         ELSE Result(NoErr, v.pos, v.val)

ReadHeader ==
    /\ dstate = "header"
    /\ LET h == readHeader(data, pos) IN
       /\ pos' = h.pos
       /\ IF h.err # NoErr
          THEN dstate' = "failed" /\ derr' = h.err /\ version' = version /\ stack' = stack
          ELSE dstate' = "running" /\ derr' = derr /\ version' = BitsToNat(h.val)
               /\ stack' = <<NewFrame>>
    /\ UNCHANGED <<data, opts, depth, objects, heap, ret, result, objTag, deepest, ev,
                   tagsRead, valid>>
    /\ UNCHANGED <<encVars, goVars, methVars, wireVars>>

\* ------------------------------------------------------------------------
\* readValue
\* ------------------------------------------------------------------------
\* d.depth++ and the depth check; the deferred d.depth-- is registered after it
ReadValueEnter ==
    /\ At("readValue", "enter")
    /\ deepest' = IF Len(stack) > deepest THEN Len(stack) ELSE deepest
    /\ IF depth + 1 > opts.maxDepth
       THEN Fail(ErrMaxDepthExceeded, pos, (depth + 1) - (Len(stack) - 1))
       ELSE Goes(pos, depth + 1, objects, objTag, heap, SetTop([Top EXCEPT !.pc = "pad"]))
    /\ UNCHANGED <<ev, tagsRead, valid>>

\* one turn of the padding loop that does not leave it
ReadValueSkipPadding ==
    /\ At("readValue", "pad")
    /\ LET tag == Peek(data, pos) IN
       /\ tag.err # NoErr \/ tag.val = tagPadding
       /\ IF tag.err # NoErr
          THEN Fail(ErrMalformedData, pos, depth - Len(stack))
          ELSE Goes(pos + 1, depth, objects, objTag, heap, stack)
    /\ UNCHANGED <<deepest, ev, tagsRead, valid>>

\* the handlers that enter their container in d.objects before reading its contents
PlaceholderHandlers == {"readObject", "readDenseArray", "readSparseArray", "readMap", "readSet"}

\* history: the table indices of the containers whose contents are being read
OpenContainers ==
    {stack[k].idx : k \in {j \in 1..Len(stack) : stack[j].fn \in PlaceholderHandlers
                                                  /\ stack[j].pc # "begin"}}

\* the padding loop breaks, the tag byte is read and the switch runs
ReadValueDispatch ==
    /\ At("readValue", "pad")
    /\ LET tag == Peek(data, pos) IN
       /\ tag.err = NoErr /\ tag.val # tagPadding
       /\ IF tag.val \in NestedTags
          THEN /\ Goes(pos + 1, depth, objects, objTag, heap,
                       SetTop([Top EXCEPT !.fn = handlerOf(tag.val), !.pc = "begin",
                                          !.tagpos = pos]))
               /\ ev' = [op |-> "tag", tag |-> tag.val]
          ELSE LET r == dispatchLeaf(tag.val, data, pos + 1, objects, Len(heap)) IN
               /\ ev' = [op |-> "leaf", tag |-> tag.val, at |-> pos + 1, table |-> objects,
                         open |-> OpenContainers, err |-> r.err, val |-> r.val,
                         end |-> r.pos]
               /\ IF r.err # NoErr
                  THEN Fail(r.err, r.pos, depth - Len(stack))
                  ELSE Return(r.val, r.pos,
                              IF r.tabled THEN Append(objects, r.val) ELSE objects,
                              IF r.tabled THEN Append(objTag, pos) ELSE objTag,
                              heap \o r.cells)
    /\ tagsRead' = Append(tagsRead, pos)
    /\ UNCHANGED <<deepest, valid>>

\* ------------------------------------------------------------------------
\* Formatting of object keys and conversion of sparse array indices
\* ------------------------------------------------------------------------
\* the decimal digits of hi * 65536 + lo
RECURSIVE DecDigits(_, _)
DecDigits(hi, lo) ==
    IF hi = 0 /\ lo < 10 THEN <<48 + lo>>
    ELSE LET l == (hi % 10) * 65536 + lo IN
         DecDigits(hi \div 10, l \div 10) \o <<48 + (l % 10)>>

\* fmt.Sprintf("%d", n) of a uint32
FormatUint32(n) == DecDigits(BitsToNat(SubSeq(n, 17, 32)), BitsToNat(SubSeq(n, 1, 16)))

\* fmt.Sprintf("%d", n) of an int32
FormatInt32(n) ==
    IF IsNegative(n) THEN <<45>> \o FormatUint32(AddBits(NotBits(n), NatToBits(1, 32)))
    ELSE FormatUint32(n)

\* the doubles the model reads as keys and indices, as their 8 bytes
Double0 == <<0, 0, 0, 0, 0, 0, 0, 0>>
DoubleNeg0 == <<0, 0, 0, 0, 0, 0, 0, 128>>
DoubleHalf == <<0, 0, 0, 0, 0, 0, 224, 63>>
Double1 == <<0, 0, 0, 0, 0, 0, 240, 63>>
Double2 == <<0, 0, 0, 0, 0, 0, 0, 64>>
Double1e6 == <<0, 0, 0, 0, 128, 132, 46, 65>>
DoubleNaN == <<0, 0, 0, 0, 0, 0, 248, 127>>

\* fmt.Sprintf("%g", f)
FormatG(f) ==
    CASE f = Double0 -> <<48>>
      [] f = DoubleNeg0 -> <<45, 48>>
      [] f = DoubleHalf -> <<48, 46, 53>>
      [] f = Double1 -> <<49>>
      [] f = Double2 -> <<50>>
      [] f = Double1e6 -> <<49, 101, 43, 48, 54>>
      [] f = DoubleNaN -> <<78, 97, 78>>

\* int(f): the results a build can give; -1 stands for any negative int
\* (the conversion of NaN is implementation-defined: the smallest int on amd64,
\* 0 on arm64)
IntOfDouble(f) ==
    CASE f = Double0 -> {0}
      [] f = DoubleNeg0 -> {0}
      [] f = DoubleHalf -> {0}
      [] f = Double1 -> {1}
      [] f = Double2 -> {2}
      [] f = Double1e6 -> {1000000}
      [] f = DoubleNaN -> {-1, 0}

\* int(key.AsNumber()) as an index: -1 stands for any index that is out of range
IndexOfKey(key) ==
    CASE key.typ = "TypeInt32" ->
            IF IsNegative(key.data) THEN {-1} ELSE {BitsToNat(key.data)}
      [] key.typ = "TypeUint32" ->
            IF FitsIn(key.data, 30) THEN {BitsToNat(key.data)} ELSE {-1}
      [] key.typ = "TypeDouble" -> IntOfDouble(key.data)

\* the limit check letting one element more through
ExceedsLimit_OneMore(length, limit) == ~FitsIn(length, 30) \/ BitsToNat(length) > limit + 1

\* int(length) > d.maxArrayLen, length a uint32
ExceedsLimit(length, limit) == ~FitsIn(length, 30) \/ BitsToNat(length) > limit

\* ------------------------------------------------------------------------
\* readObject
\* ------------------------------------------------------------------------
ReadObjectBegin ==
    /\ At("readObject", "begin")
    /\ LET addr == Len(heap) + 1
           v == Val("TypeObject", <<addr>>)
       IN Goes(pos, depth, Append(objects, v), Append(objTag, Top.tagpos),
               Append(heap, MapCell(<<>>)),
               SetTop([Top EXCEPT !.pc = "loop", !.ptr = addr, !.idx = Len(objects) + 1]))
    /\ UNCHANGED <<deepest, ev, tagsRead, valid>>

ReadObjectLoop ==
    /\ At("readObject", "loop")
    /\ LET tag == Peek(data, pos) IN
       IF tag.err # NoErr THEN Fail(tag.err, pos, depth - Len(stack))
       ELSE IF tag.val = tagEndJSObject
       THEN LET count == ReadVarint32(data, pos + 1) IN
            IF count.err # NoErr THEN Fail(count.err, count.pos, depth - Len(stack))
            ELSE Return(Val("TypeObject", <<Top.ptr>>), count.pos,
                        [objects EXCEPT ![Top.idx] = Val("TypeObject", <<Top.ptr>>)],
                        objTag, heap)
       ELSE Goes(pos, depth, objects, objTag, heap, Call("key"))
    /\ UNCHANGED <<deepest, ev, tagsRead, valid>>

ReadObjectKey ==
    /\ At("readObject", "key")
    /\ IF ret.typ \in {"TypeString", "TypeInt32", "TypeUint32", "TypeDouble"}
       THEN LET keyStr == CASE ret.typ = "TypeString" -> ret.data
                            [] ret.typ = "TypeInt32" -> FormatInt32(ret.data)
                            [] ret.typ = "TypeUint32" -> FormatUint32(ret.data)
                            [] ret.typ = "TypeDouble" -> FormatG(ret.data)
            IN Goes(pos, depth, objects, objTag, heap,
                    Append(SetTop([Top EXCEPT !.pc = "val", !.key = keyStr]), NewFrame))
       ELSE Fail(ErrMalformedData, pos, depth - Len(stack))
    /\ UNCHANGED <<deepest, ev, tagsRead, valid>>

ReadObjectVal ==
    /\ At("readObject", "val")
    /\ Goes(pos, depth, objects, objTag,
            [heap EXCEPT ![Top.ptr].m = (Top.key :> ret) @@ @],
            SetTop([Top EXCEPT !.pc = "loop"]))
    /\ UNCHANGED <<deepest, ev, tagsRead, valid>>

\* ------------------------------------------------------------------------
\* readDenseArray
\* ------------------------------------------------------------------------
ReadDenseArrayBegin ==
    /\ At("readDenseArray", "begin")
    /\ LET length == ReadVarint32(data, pos) IN
       /\ ev' = [op |-> "array", err |-> length.err, length |-> length.val,
                 cells |-> Len(heap), entries |-> Len(objects)]
       /\ IF length.err # NoErr THEN Fail(length.err, length.pos, depth - Len(stack))
          ELSE IF ExceedsLimit(length.val, opts.maxArrayLen)
          THEN Fail(ErrMalformedData, length.pos, depth - Len(stack))
          ELSE LET n == BitsToNat(length.val)
                   addr == Len(heap) + 1
               IN Goes(length.pos, depth,
                       Append(objects, Val("TypeArray", <<addr, 0>>)),
                       Append(objTag, Top.tagpos),
                       Append(heap, ArrayCell(n, ZeroValue, <<>>)),
                       SetTop([Top EXCEPT !.pc = IF n > 0 THEN "elems" ELSE "props",
                                          !.ptr = addr, !.idx = Len(objects) + 1,
                                          !.n = n, !.i = 0]))
    /\ UNCHANGED <<deepest, tagsRead, valid>>

ReadDenseArrayElems ==
    /\ At("readDenseArray", "elems")
    /\ Goes(pos, depth, objects, objTag, heap, Call("elem"))
    /\ UNCHANGED <<deepest, ev, tagsRead, valid>>

\* arr = append(arr, elem): the capacity is never exceeded, so the element is
\* written to the backing array in place and the local slice header grows
ReadDenseArrayElem ==
    /\ At("readDenseArray", "elem")
    /\ Goes(pos, depth, objects, objTag,
            [heap EXCEPT ![Top.ptr].at = (Top.i :> ret) @@ @],
            SetTop([Top EXCEPT !.i = @ + 1,
                               !.pc = IF Top.i + 1 < Top.n THEN "elems" ELSE "props"]))
    /\ UNCHANGED <<deepest, ev, tagsRead, valid>>

ReadDenseArrayProps ==
    /\ At("readDenseArray", "props")
    /\ LET tag == Peek(data, pos) IN
       IF tag.err # NoErr THEN Fail(tag.err, pos, depth - Len(stack))
       ELSE IF tag.val = tagEndDenseArray
       THEN LET properties == ReadVarint32(data, pos + 1) IN
            IF properties.err # NoErr
            THEN Fail(properties.err, properties.pos, depth - Len(stack))
            ELSE LET length == ReadVarint32(data, properties.pos) IN
                 IF length.err # NoErr THEN Fail(length.err, length.pos, depth - Len(stack))
                 ELSE Return(Val("TypeArray", <<Top.ptr, Top.i>>), length.pos,
                             [objects EXCEPT ![Top.idx] = Val("TypeArray", <<Top.ptr, Top.i>>)],
                             objTag, heap)
       ELSE Goes(pos, depth, objects, objTag, heap, Call("propKey"))
    /\ UNCHANGED <<deepest, ev, tagsRead, valid>>

ReadDenseArrayPropKey ==
    /\ At("readDenseArray", "propKey")
    /\ Goes(pos, depth, objects, objTag, heap, Call("propVal"))
    /\ UNCHANGED <<deepest, ev, tagsRead, valid>>

ReadDenseArrayPropVal ==
    /\ At("readDenseArray", "propVal")
    /\ Goes(pos, depth, objects, objTag, heap, SetTop([Top EXCEPT !.pc = "props"]))
    /\ UNCHANGED <<deepest, ev, tagsRead, valid>>

\* ------------------------------------------------------------------------
\* readSparseArray
\* ------------------------------------------------------------------------
ReadSparseArrayBegin ==
    /\ At("readSparseArray", "begin")
    /\ LET length == ReadVarint32(data, pos) IN
       /\ ev' = [op |-> "array", err |-> length.err, length |-> length.val,
                 cells |-> Len(heap), entries |-> Len(objects)]
       /\ IF length.err # NoErr THEN Fail(length.err, length.pos, depth - Len(stack))
          ELSE IF ExceedsLimit(length.val, opts.maxArrayLen)
          THEN Fail(ErrMalformedData, length.pos, depth - Len(stack))
          ELSE LET n == BitsToNat(length.val)
                   addr == Len(heap) + 1
               IN Goes(length.pos, depth,
                       Append(objects, Val("TypeArray", <<addr, n>>)),
                       Append(objTag, Top.tagpos),
                       Append(heap, ArrayCell(n, Hole, <<>>)),
                       SetTop([Top EXCEPT !.pc = "loop", !.ptr = addr,
                                          !.idx = Len(objects) + 1, !.n = n]))
    /\ UNCHANGED <<deepest, tagsRead, valid>>

ReadSparseArrayLoop ==
    /\ At("readSparseArray", "loop")
    /\ LET tag == Peek(data, pos) IN
       IF tag.err # NoErr THEN Fail(tag.err, pos, depth - Len(stack))
       ELSE IF tag.val = tagEndSparseArray
       THEN LET properties == ReadVarint32(data, pos + 1) IN
            IF properties.err # NoErr
            THEN Fail(properties.err, properties.pos, depth - Len(stack))
            ELSE LET length == ReadVarint32(data, properties.pos) IN
                 IF length.err # NoErr THEN Fail(length.err, length.pos, depth - Len(stack))
                 ELSE Return(Val("TypeArray", <<Top.ptr, Top.n>>), length.pos,
                             [objects EXCEPT ![Top.idx] = Val("TypeArray", <<Top.ptr, Top.n>>)],
                             objTag, heap)
       ELSE Goes(pos, depth, objects, objTag, heap, Call("key"))
    /\ UNCHANGED <<deepest, ev, tagsRead, valid>>

ReadSparseArrayKey ==
    /\ At("readSparseArray", "key")
    /\ Goes(pos, depth, objects, objTag, heap,
            Append(SetTop([Top EXCEPT !.pc = "val", !.key = ret]), NewFrame))
    /\ UNCHANGED <<deepest, ev, tagsRead, valid>>

ReadSparseArrayVal ==
    /\ At("readSparseArray", "val")
    /\ \E idx \in (IF IsNumber(Top.key) THEN IndexOfKey(Top.key) ELSE {-1}) :
          Goes(pos, depth, objects, objTag,
               IF idx >= 0 /\ idx < Top.n
               THEN [heap EXCEPT ![Top.ptr].at = (idx :> ret) @@ @] ELSE heap,
               SetTop([Top EXCEPT !.pc = "loop"]))
    /\ UNCHANGED <<deepest, ev, tagsRead, valid>>

\* ------------------------------------------------------------------------
\* readMap and readSet: Top.acc is the local slice entries / values
\* ------------------------------------------------------------------------
ReadMapBegin ==
    /\ At("readMap", "begin")
    /\ LET addr == Len(heap) + 1 IN
       Goes(pos, depth, Append(objects, Val("TypeMap", <<addr>>)),
            Append(objTag, Top.tagpos), Append(heap, JSMapCell(<<>>)),
            SetTop([Top EXCEPT !.pc = "loop", !.ptr = addr, !.idx = Len(objects) + 1]))
    /\ UNCHANGED <<deepest, ev, tagsRead, valid>>

ReadMapLoop ==
    /\ At("readMap", "loop")
    /\ LET tag == Peek(data, pos) IN
       IF tag.err # NoErr THEN Fail(tag.err, pos, depth - Len(stack))
       ELSE IF tag.val = tagEndMap
       THEN LET count == ReadVarint32(data, pos + 1) IN
            IF count.err # NoErr THEN Fail(count.err, count.pos, depth - Len(stack))
            ELSE Return(Val("TypeMap", <<Top.ptr>>), count.pos,
                        [objects EXCEPT ![Top.idx] = Val("TypeMap", <<Top.ptr>>)], objTag,
                        [heap EXCEPT ![Top.ptr].Entries = Top.acc])
       ELSE Goes(pos, depth, objects, objTag, heap, Call("key"))
    /\ UNCHANGED <<deepest, ev, tagsRead, valid>>

ReadMapKey ==
    /\ At("readMap", "key")
    /\ Goes(pos, depth, objects, objTag, heap,
            Append(SetTop([Top EXCEPT !.pc = "val", !.key = ret]), NewFrame))
    /\ UNCHANGED <<deepest, ev, tagsRead, valid>>

ReadMapVal ==
    /\ At("readMap", "val")
    /\ Goes(pos, depth, objects, objTag, heap,
            SetTop([Top EXCEPT !.pc = "loop",
                               !.acc = Append(@, [Key |-> Top.key, Value |-> ret])]))
    /\ UNCHANGED <<deepest, ev, tagsRead, valid>>

ReadSetBegin ==
    /\ At("readSet", "begin")
    /\ LET addr == Len(heap) + 1 IN
       Goes(pos, depth, Append(objects, Val("TypeSet", <<addr>>)),
            Append(objTag, Top.tagpos), Append(heap, JSSetCell(<<>>)),
            SetTop([Top EXCEPT !.pc = "loop", !.ptr = addr, !.idx = Len(objects) + 1]))
    /\ UNCHANGED <<deepest, ev, tagsRead, valid>>

ReadSetLoop ==
    /\ At("readSet", "loop")
    /\ LET tag == Peek(data, pos) IN
       IF tag.err # NoErr THEN Fail(tag.err, pos, depth - Len(stack))
       ELSE IF tag.val = tagEndSet
       THEN LET count == ReadVarint32(data, pos + 1) IN
            IF count.err # NoErr THEN Fail(count.err, count.pos, depth - Len(stack))
            ELSE Return(Val("TypeSet", <<Top.ptr>>), count.pos,
                        [objects EXCEPT ![Top.idx] = Val("TypeSet", <<Top.ptr>>)], objTag,
                        [heap EXCEPT ![Top.ptr].Values = Top.acc])
       ELSE Goes(pos, depth, objects, objTag, heap, Call("val"))
    /\ UNCHANGED <<deepest, ev, tagsRead, valid>>

ReadSetVal ==
    /\ At("readSet", "val")
    /\ Goes(pos, depth, objects, objTag, heap,
            SetTop([Top EXCEPT !.pc = "loop", !.acc = Append(@, ret)]))
    /\ UNCHANGED <<deepest, ev, tagsRead, valid>>

\* ------------------------------------------------------------------------
\* readRegExp, readStringObject, readBigIntObject
\* ------------------------------------------------------------------------
\* the letters of the flag bits 1, 2, 4, 8, 16, 32: "gimsuy"
FlagLetters == <<103, 105, 109, 115, 117, 121>>

RECURSIVE FlagsFrom(_, _)
FlagsFrom(flagBits, k) ==
    IF k > 6 THEN <<>>
    ELSE (IF flagBits[k] = 1 THEN <<FlagLetters[k]>> ELSE <<>>) \o FlagsFrom(flagBits, k + 1)

ReadRegExpBegin ==
    /\ At("readRegExp", "begin")
    /\ Goes(pos, depth, objects, objTag, heap, Call("pattern"))
    /\ UNCHANGED <<deepest, ev, tagsRead, valid>>

ReadRegExpPattern ==
    /\ At("readRegExp", "pattern")
    /\ IF ret.typ # "TypeString" THEN Fail(ErrMalformedData, pos, depth - Len(stack))
       ELSE LET flagBits == ReadVarint32(data, pos) IN
            IF flagBits.err # NoErr THEN Fail(flagBits.err, flagBits.pos, depth - Len(stack))
            ELSE LET v == Val("TypeRegExp", <<Len(heap) + 1>>) IN
                 Return(v, flagBits.pos, Append(objects, v), Append(objTag, Top.tagpos),
                        Append(heap, RegExpCell(ret.data, FlagsFrom(flagBits.val, 1))))
    /\ UNCHANGED <<deepest, ev, tagsRead, valid>>

ReadStringObjectBegin ==
    /\ At("readStringObject", "begin")
    /\ Goes(pos, depth, objects, objTag, heap, Call("inner"))
    /\ UNCHANGED <<deepest, ev, tagsRead, valid>>

ReadStringObjectInner ==
    /\ At("readStringObject", "inner")
    /\ IF ret.typ # "TypeString" THEN Fail(ErrMalformedData, pos, depth - Len(stack))
       ELSE LET v == Val("TypeBoxedPrimitive", <<Len(heap) + 1>>) IN
            Return(v, pos, Append(objects, v), Append(objTag, Top.tagpos),
                   Append(heap, BoxedCell("TypeString", ret)))
    /\ UNCHANGED <<deepest, ev, tagsRead, valid>>

ReadBigIntObjectBegin ==
    /\ At("readBigIntObject", "begin")
    /\ Goes(pos, depth, objects, objTag, heap, Call("inner"))
    /\ UNCHANGED <<deepest, ev, tagsRead, valid>>

ReadBigIntObjectInner ==
    /\ At("readBigIntObject", "inner")
    /\ IF ret.typ # "TypeBigInt" THEN Fail(ErrMalformedData, pos, depth - Len(stack))
       ELSE LET v == Val("TypeBoxedPrimitive", <<Len(heap) + 1>>) IN
            Return(v, pos, Append(objects, v), Append(objTag, Top.tagpos),
                   Append(heap, BoxedCell("TypeBigInt", ret)))
    /\ UNCHANGED <<deepest, ev, tagsRead, valid>>

\* ------------------------------------------------------------------------
\* readError: Top.ptr is jsErr, Top.n the sub-tag being read
\* ------------------------------------------------------------------------
errorName(errType) ==
    CASE errType = errorTypeEvalError -> "EvalError"
      [] errType = errorTypeRangeError -> "RangeError"
      [] errType = errorTypeReferenceError -> "ReferenceError"
      [] errType = errorTypeSyntaxError -> "SyntaxError"
      [] errType = errorTypeTypeError -> "TypeError"
      [] errType = errorTypeURIError -> "URIError"
      [] OTHER -> "Error"

ReadErrorBegin ==
    /\ At("readError", "begin")
    /\ LET errType == ReadByte(data, pos)
           addr == Len(heap) + 1
       IN IF errType.err # NoErr THEN Fail(errType.err, errType.pos, depth - Len(stack))
          ELSE Goes(errType.pos, depth, objects, objTag,
                    Append(heap, JSErrorCell(errorName(errType.val), <<>>, <<>>, <<>>)),
                    IF errType.val = errorTypeErrorWithMessage
                    THEN Append(SetTop([Top EXCEPT !.pc = "message", !.ptr = addr]), NewFrame)
                    ELSE SetTop([Top EXCEPT !.pc = "sub", !.ptr = addr]))
    /\ UNCHANGED <<deepest, ev, tagsRead, valid>>

ReadErrorMessage ==
    /\ At("readError", "message")
    /\ Goes(pos, depth, objects, objTag,
            IF ret.typ = "TypeString" THEN [heap EXCEPT ![Top.ptr].Message = ret.data] ELSE heap,
            SetTop([Top EXCEPT !.pc = "sub"]))
    /\ UNCHANGED <<deepest, ev, tagsRead, valid>>

ReadErrorSub ==
    /\ At("readError", "sub")
    /\ LET subTag == ReadByte(data, pos) IN
       IF subTag.err # NoErr THEN Fail(subTag.err, subTag.pos, depth - Len(stack))
       ELSE IF subTag.val = errorTagEnd
       THEN LET v == Val("TypeError", <<Top.ptr>>) IN
            Return(v, subTag.pos, Append(objects, v), Append(objTag, Top.tagpos), heap)
       ELSE Goes(subTag.pos, depth, objects, objTag, heap,
                 Append(SetTop([Top EXCEPT !.pc = "subVal", !.n = subTag.val]), NewFrame))
    /\ UNCHANGED <<deepest, ev, tagsRead, valid>>

\* jsErr.Cause = &val: the pointer is modelled as <<val>>, nil as <<>>
ReadErrorSubVal ==
    /\ At("readError", "subVal")
    /\ Goes(pos, depth, objects, objTag,
            CASE Top.n = errorTagMessage /\ ret.typ = "TypeString" ->
                    [heap EXCEPT ![Top.ptr].Message = ret.data]
              [] Top.n = errorTagStack /\ ret.typ = "TypeString" ->
                    [heap EXCEPT ![Top.ptr].Stack = ret.data]
              [] Top.n = errorTagCause -> [heap EXCEPT ![Top.ptr].Cause = <<ret>>]
              [] OTHER -> heap,
            SetTop([Top EXCEPT !.pc = "sub"]))
    /\ UNCHANGED <<deepest, ev, tagsRead, valid>>

\* ------------------------------------------------------------------------
\* wire.Writer: each operator gives the bytes appended to the buffer
\* ------------------------------------------------------------------------
\* n a uint64
RECURSIVE WriteVarint(_)
WriteVarint(n) ==
    IF ~FitsIn(n, 7)
    THEN <<BitsToNat(SubSeq(n, 1, 7)) + 128>> \o WriteVarint(ShrBits(n, 7))
    ELSE <<BitsToNat(SubSeq(n, 1, 7))>>

WriteVarint32(n) == WriteVarint(ZeroExtend(n, 64))

\* ZigZagEncode32 with a logical shift of the sign
ZigZagEncode32_Logical(n) == XorBits(ShlBits(n, 1), ShrBits(n, 31))

\* uint32((n << 1) ^ (n >> 31)), n an int32
ZigZagEncode32(n) == XorBits(ShlBits(n, 1), SarBits(n, 31))

WriteZigZag32(n) == WriteVarint32(ZigZagEncode32(n))

\* byte(r) of every rune
WriteOneByteString(s) == [i \in 1..Len(s) |-> s[i] % 256]

\* the UTF-16 code units of a string
RECURSIVE Utf16Encode(_)
Utf16Encode(s) ==
    IF s = <<>> THEN <<>>
    ELSE LET r == Head(s) IN
         (IF r <= 65535 THEN <<r>>
          ELSE <<55296 + ((r - 65536) \div 1024), 56320 + ((r - 65536) % 1024)>>)
         \o Utf16Encode(Tail(s))

RECURSIVE LittleEndian16(_)
LittleEndian16(u) ==
    IF u = <<>> THEN <<>>
    ELSE <<Head(u) % 256, Head(u) \div 256>> \o LittleEndian16(Tail(u))

\* WriteTwoByteString without the alignment
WriteTwoByteString_NoPad(buflen, s) == LittleEndian16(Utf16Encode(s))

\* buflen is len(w.buf) before the call
WriteTwoByteString(buflen, s) ==
    (IF (buflen % 2) # 0 THEN <<0>> ELSE <<>>) \o LittleEndian16(Utf16Encode(s))

UTF16Length(s) == Len(Utf16Encode(s))

NeedsUTF16(s) == \E i \in 1..Len(s) : s[i] > 255

\* len(str): the number of bytes of the UTF-8 encoding
RECURSIVE Utf8Len(_)
Utf8Len(s) ==
    IF s = <<>> THEN 0
    ELSE (CASE Head(s) < 128 -> 1
            [] Head(s) >= 128 /\ Head(s) < 2048 -> 2
            [] Head(s) >= 2048 /\ Head(s) < 65536 -> 3
            [] OTHER -> 4) + Utf8Len(Tail(s))

\* ------------------------------------------------------------------------
\* Serializer: the writers that write no nested Value; buflen is the length
\* of the buffer before the call
\* ------------------------------------------------------------------------
SerializeVersion == 15

writeHeader == <<tagVersion>> \o WriteVarint32(NatToBits(SerializeVersion, 32))

writeString(buflen, str) ==
    IF NeedsUTF16(str)
    THEN <<tagTwoByteString>> \o WriteVarint32(NatToBits(UTF16Length(str) * 2, 32))
         \o WriteTwoByteString(buflen + 1 + Len(WriteVarint32(NatToBits(UTF16Length(str) * 2, 32))),
                               str)
    ELSE <<tagOneByteString>> \o WriteVarint32(NatToBits(Utf8Len(str), 32))
         \o WriteOneByteString(str)

\* n is <<sign>> \o the big-endian magnitude bytes
writeBigInt(n) ==
    IF Len(n) = 1 THEN <<tagBigInt>> \o WriteVarint(Zero64)
    ELSE LET absBytes == Tail(n)
             bitfield == OrBits(ShlBits(NatToBits(Len(absBytes), 64), 1), NatToBits(n[1], 64))
         IN <<tagBigInt>> \o WriteVarint(bitfield) \o Reverse(absBytes)

\* float64(t.UnixMilli()) as its 8 bytes
MillisOfTime(t) ==
    LET ms == t[1] * 1000 + (t[2] \div 1000000) IN
    CASE ms = 0 -> <<0, 0, 0, 0, 0, 0, 0, 0>>
      [] ms = 1 -> <<0, 0, 0, 0, 0, 0, 240, 63>>
      [] ms = 2 -> <<0, 0, 0, 0, 0, 0, 0, 64>>
      [] ms = 1000000 -> <<0, 0, 0, 0, 128, 132, 46, 65>>

writeArrayBuffer(b) == <<tagArrayBuffer>> \o WriteVarint32(NatToBits(Len(b), 32)) \o b

flagBit(c) ==
    CASE c = 103 -> 1 [] c = 105 -> 2 [] c = 109 -> 3 [] c = 115 -> 4
      [] c = 117 -> 5 [] c = 121 -> 6 [] OTHER -> 0

\* the bitfield of a flags string
flagsOf(f) == [k \in 1..32 |-> IF \E i \in 1..Len(f) : flagBit(f[i]) = k THEN 1 ELSE 0]

writeRegExp(buflen, re) ==
    <<tagRegExp>> \o writeString(buflen + 1, re.Pattern) \o WriteVarint32(flagsOf(re.Flags))

\* the type ID of a typed array name, -1 when the name is unknown
typeID(name) ==
    IF \E k \in 0..12 : typeName(k) = name
    THEN CHOOSE k \in 0..12 : typeName(k) = name
    ELSE -1

ErrUnknownTypedArray == "v8serialize: unknown TypedArray type"
ErrUnsupportedType == "v8serialize: unsupported type"
ErrUnsupportedBoxed == "v8serialize: unsupported boxed primitive type"

\* [err, bytes]; the tag is written before the name is looked up
writeTypedArray(view) ==
    IF typeID(view.Type) < 0 THEN [err |-> ErrUnknownTypedArray, bytes |-> <<tagTypedArray>>]
    ELSE [err |-> NoErr,
          bytes |-> <<tagTypedArray, typeID(view.Type)>>
                    \o WriteVarint32(NatToBits(Len(view.Buffer), 32)) \o view.Buffer]

\* [err, bytes]; an accessor called on a Value of another type panics
writeBoxedPrimitive(buflen, boxed) ==
    CASE boxed.PrimitiveType = "TypeDouble" ->
            IF boxed.Value.typ # "TypeDouble" THEN [err |-> Panic, bytes |-> <<tagNumberObject>>]
            ELSE [err |-> NoErr, bytes |-> <<tagNumberObject>> \o boxed.Value.data]
      [] boxed.PrimitiveType = "TypeBool" ->
            IF boxed.Value.typ # "TypeBool" THEN [err |-> Panic, bytes |-> <<>>]
            ELSE [err |-> NoErr,
                  bytes |-> IF boxed.Value.data = <<1>> THEN <<tagTrueObject>>
                            ELSE <<tagFalseObject>>]
      [] boxed.PrimitiveType = "TypeString" ->
            IF boxed.Value.typ # "TypeString" THEN [err |-> Panic, bytes |-> <<tagStringObject>>]
            ELSE [err |-> NoErr,
                  bytes |-> <<tagStringObject>> \o writeString(buflen + 1, boxed.Value.data)]
      [] boxed.PrimitiveType = "TypeBigInt" ->
            IF boxed.Value.typ # "TypeBigInt" THEN [err |-> Panic, bytes |-> <<tagBigIntObject>>]
            ELSE [err |-> NoErr, bytes |-> <<tagBigIntObject>> \o writeBigInt(boxed.Value.data)]
      [] OTHER -> [err |-> ErrUnsupportedBoxed, bytes |-> <<>>]

\* the types writeValue hands to a writer that writes nested Values
NestedTypes == {"TypeObject", "TypeArray", "TypeMap", "TypeSet", "TypeError"}

\* the switch of writeValue for the other types: [err, bytes]
writeLeaf(buflen, v, h) ==
    CASE v.typ = "TypeNull" -> [err |-> NoErr, bytes |-> <<tagNull>>]
      [] v.typ = "TypeUndefined" -> [err |-> NoErr, bytes |-> <<tagUndefined>>]
      [] v.typ = "TypeBool" ->
            [err |-> NoErr, bytes |-> IF v.data = <<1>> THEN <<tagTrue>> ELSE <<tagFalse>>]
      [] v.typ = "TypeInt32" -> [err |-> NoErr, bytes |-> <<tagInt32>> \o WriteZigZag32(v.data)]
      [] v.typ = "TypeUint32" -> [err |-> NoErr, bytes |-> <<tagUint32>> \o WriteVarint32(v.data)]
      [] v.typ = "TypeDouble" -> [err |-> NoErr, bytes |-> <<tagDouble>> \o v.data]
      [] v.typ = "TypeBigInt" -> [err |-> NoErr, bytes |-> writeBigInt(v.data)]
      [] v.typ = "TypeString" -> [err |-> NoErr, bytes |-> writeString(buflen, v.data)]
      [] v.typ = "TypeDate" -> [err |-> NoErr, bytes |-> <<tagDate>> \o MillisOfTime(v.data)]
      [] v.typ = "TypeArrayBuffer" -> [err |-> NoErr, bytes |-> writeArrayBuffer(v.data)]
      [] v.typ = "TypeRegExp" -> [err |-> NoErr, bytes |-> writeRegExp(buflen, h[v.data[1]])]
      [] v.typ = "TypeTypedArray" -> writeTypedArray(h[v.data[1]])
      [] v.typ = "TypeBoxedPrimitive" -> writeBoxedPrimitive(buflen, h[v.data[1]])
      [] v.typ = "TypeHole" -> [err |-> NoErr, bytes |-> <<tagHole>>]
      [] OTHER -> [err |-> ErrUnsupportedType, bytes |-> <<>>]

\* ------------------------------------------------------------------------
\* Serializer: Serialize and writeValue, one frame per writeValue call
\* ------------------------------------------------------------------------
\* one writeValue call: v its argument, rest the map keys the range loop has
\* still to visit, i the index the range loop is at
EFrame(v) == [v |-> v, fn |-> "writeValue", pc |-> "enter", rest |-> {}, i |-> 0]

ETop == estack[Len(estack)]
SetETop(f) == [estack EXCEPT ![Len(estack)] = f]
EAt(fn, pc) == estate = "running" /\ estack # <<>> /\ ETop.fn = fn /\ ETop.pc = pc

EGoes(b, s) ==
    /\ buf' = b /\ estack' = s
    /\ UNCHANGED <<orig, estate, eerr, arg, outs, calls, fed>>
    /\ UNCHANGED <<decVars, goVars, methVars, wireVars>>

\* the goroutine's stack is exhausted: the runtime ends the process
StackOverflow(b) ==
    /\ buf' = b /\ estack' = <<>> /\ estate' = "overflow"
    /\ UNCHANGED <<orig, eerr, arg, outs, calls, fed>>
    /\ UNCHANGED <<decVars, goVars, methVars, wireVars>>

\* ECall leaving out a Value that an active writeValue call is already writing
ECall_SkipActive(b, top, v) ==
    IF \E k \in 1..Len(estack) : estack[k].v = v THEN EGoes(b, SetETop(top))
    ELSE IF Len(estack) >= MaxEncodeStack THEN StackOverflow(b)
    ELSE EGoes(b, Append(SetETop(top), EFrame(v)))

\* the writer at the top goes on as top once the nested s.writeValue(v) returns
ECall(b, top, v) ==
    IF Len(estack) >= MaxEncodeStack THEN StackOverflow(b)
    ELSE EGoes(b, Append(SetETop(top), EFrame(v)))

\* writeValue returns nil; the outermost return is that of Serialize, which
\* returns s.writer.Bytes()
EReturn(b) ==
    /\ buf' = b
    /\ estack' = SubSeq(estack, 1, Len(estack) - 1)
    /\ IF Len(estack) = 1
       THEN estate' = "done" /\ outs' = Append(outs, b)
       ELSE estate' = estate /\ outs' = outs
    /\ UNCHANGED <<orig, eerr, arg, calls, fed>>
    /\ UNCHANGED <<decVars, goVars, methVars, wireVars>>

\* an error return: every caller returns it at once
EFail(e, b) ==
    /\ buf' = b /\ estack' = <<>>
    /\ estate' = IF e = Panic THEN "panicked" ELSE "failed"
    /\ eerr' = e
    /\ UNCHANGED <<orig, arg, outs, calls, fed>>
    /\ UNCHANGED <<decVars, goVars, methVars, wireVars>>

\* Serialize(v): NewSerializer, writeHeader and the call of writeValue.  The
\* first call is given orig, a later one the Value the last decode returned.
Serialize ==
    /\ calls < MaxCalls /\ gostate = "idle" /\ returned = <<>>
    /\ estate \in {"idle", "done", "failed"}
    /\ IF calls = 0 /\ orig # <<>> THEN arg' = orig[1]
       ELSE dstate = "done" /\ fed = calls /\ arg' = result
    /\ buf' = writeHeader
    /\ estack' = <<EFrame(arg')>>
    /\ estate' = "running"
    /\ eerr' = NoErr
    /\ calls' = calls + 1
    /\ UNCHANGED <<orig, outs, fed>>
    /\ UNCHANGED <<decVars, goVars, methVars, wireVars>>

\* writeValue of a Value that holds no nested Value
WriteValue ==
    /\ EAt("writeValue", "enter")
    /\ ETop.v.typ \notin NestedTypes
    /\ LET r == writeLeaf(Len(buf), ETop.v, heap) IN
       IF r.err # NoErr THEN EFail(r.err, buf \o r.bytes) ELSE EReturn(buf \o r.bytes)

WriteObject ==
    /\ EAt("writeValue", "enter")
    /\ ETop.v.typ = "TypeObject"
    /\ EGoes(buf \o <<tagBeginJSObject>>,
             SetETop([ETop EXCEPT !.fn = "writeObject", !.pc = "loop",
                                  !.rest = DOMAIN heap[ETop.v.data[1]].m]))

\* one turn of "for key, val := range obj": the order of a map range is not
\* specified, any key not yet visited may come next
WriteObjectNext ==
    /\ EAt("writeObject", "loop")
    /\ \E key \in ETop.rest :
          ECall(buf \o writeString(Len(buf), key),
                [ETop EXCEPT !.rest = @ \ {key}], heap[ETop.v.data[1]].m[key])

WriteObjectEnd ==
    /\ EAt("writeObject", "loop")
    /\ ETop.rest = {}
    /\ EReturn(buf \o <<tagEndJSObject>>
               \o WriteVarint32(NatToBits(Cardinality(DOMAIN heap[ETop.v.data[1]].m), 32)))

WriteArray ==
    /\ EAt("writeValue", "enter")
    /\ ETop.v.typ = "TypeArray"
    /\ EGoes(buf \o <<tagBeginDenseArray>> \o WriteVarint32(NatToBits(ETop.v.data[2], 32)),
             SetETop([ETop EXCEPT !.fn = "writeArray", !.pc = "loop", !.i = 0]))

WriteArrayElem ==
    /\ EAt("writeArray", "loop")
    /\ ETop.i < ETop.v.data[2]
    /\ ECall(buf, [ETop EXCEPT !.i = @ + 1], ElemAt(heap[ETop.v.data[1]], ETop.i))

WriteArrayEnd ==
    /\ EAt("writeArray", "loop")
    /\ ETop.i >= ETop.v.data[2]
    /\ EReturn(buf \o <<tagEndDenseArray>> \o WriteVarint32(Zero32)
               \o WriteVarint32(NatToBits(ETop.v.data[2], 32)))

WriteMap ==
    /\ EAt("writeValue", "enter")
    /\ ETop.v.typ = "TypeMap"
    /\ EGoes(buf \o <<tagBeginMap>>,
             SetETop([ETop EXCEPT !.fn = "writeMap", !.pc = "key", !.i = 0]))

WriteMapKey ==
    /\ EAt("writeMap", "key")
    /\ ETop.i < Len(heap[ETop.v.data[1]].Entries)
    /\ ECall(buf, [ETop EXCEPT !.pc = "val"], heap[ETop.v.data[1]].Entries[ETop.i + 1].Key)

WriteMapValue ==
    /\ EAt("writeMap", "val")
    /\ ECall(buf, [ETop EXCEPT !.pc = "key", !.i = @ + 1],
             heap[ETop.v.data[1]].Entries[ETop.i + 1].Value)

WriteMapEnd ==
    /\ EAt("writeMap", "key")
    /\ ETop.i >= Len(heap[ETop.v.data[1]].Entries)
    /\ EReturn(buf \o <<tagEndMap>>
               \o WriteVarint32(NatToBits(Len(heap[ETop.v.data[1]].Entries) * 2, 32)))

WriteSet ==
    /\ EAt("writeValue", "enter")
    /\ ETop.v.typ = "TypeSet"
    /\ EGoes(buf \o <<tagBeginSet>>,
             SetETop([ETop EXCEPT !.fn = "writeSet", !.pc = "loop", !.i = 0]))

WriteSetValue ==
    /\ EAt("writeSet", "loop")
    /\ ETop.i < Len(heap[ETop.v.data[1]].Values)
    /\ ECall(buf, [ETop EXCEPT !.i = @ + 1], heap[ETop.v.data[1]].Values[ETop.i + 1])

WriteSetEnd ==
    /\ EAt("writeSet", "loop")
    /\ ETop.i >= Len(heap[ETop.v.data[1]].Values)
    /\ EReturn(buf \o <<tagEndSet>>
               \o WriteVarint32(NatToBits(Len(heap[ETop.v.data[1]].Values), 32)))

\* the error type byte of a name, 0 for "Error" and for any other name
errorType(name) ==
    CASE name = "EvalError" -> errorTypeEvalError
      [] name = "RangeError" -> errorTypeRangeError
      [] name = "ReferenceError" -> errorTypeReferenceError
      [] name = "SyntaxError" -> errorTypeSyntaxError
      [] name = "TypeError" -> errorTypeTypeError
      [] name = "URIError" -> errorTypeURIError
      [] OTHER -> 0

\* the bytes writeError writes up to the stack trace
writeErrorHead(buflen, jsErr) ==
    LET head == IF errorType(jsErr.Name) = 0 THEN <<tagError, errorTypeErrorWithMessage>>
                ELSE <<tagError, errorType(jsErr.Name), errorTagMessage>>
        msg == head \o writeString(buflen + Len(head), jsErr.Message)
    IN IF jsErr.Stack # <<>>
       THEN msg \o <<errorTagStack>> \o writeString(buflen + Len(msg) + 1, jsErr.Stack)
       ELSE msg

WriteError ==
    /\ EAt("writeValue", "enter")
    /\ ETop.v.typ = "TypeError"
    /\ LET jsErr == heap[ETop.v.data[1]]
           b == buf \o writeErrorHead(Len(buf), jsErr)
       IN IF jsErr.Cause # <<>>
          THEN ECall(b \o <<errorTagCause>>, [ETop EXCEPT !.fn = "writeError", !.pc = "end"],
                     jsErr.Cause[1])
          ELSE EReturn(b \o <<errorTagEnd>>)

WriteErrorEnd ==
    /\ EAt("writeError", "end")
    /\ EReturn(buf \o <<errorTagEnd>>)

\* the Values a program gives to one Serializer after the decoded one
MethodValues == {Null, Int32(IntToBits(42, 32)), String(<<97>>)}

\* s.Serialize(v) on a Serializer s made once by NewSerializer and used for
\* every call: writeHeader and writeValue append to s.writer, which no call
\* resets; the call returns nil and the error, or s.writer.Bytes(), the slice
\* w.buf itself.  The first call is given the Value the decode returned.
SerializerSerialize ==
    /\ dstate = "done" /\ orig = <<>>
    /\ estate = "idle" /\ calls = 0 /\ gostate = "idle"
    /\ Len(returned) < MaxCalls
    /\ \A k \in 1..Len(returned) : returned[k].err # Panic
    /\ \E v \in (IF returned = <<>> THEN {result} ELSE MethodValues) :
          /\ v.typ \notin NestedTypes
          /\ LET b == writer \o writeHeader
                 r == writeLeaf(Len(b), v, heap) IN
             /\ writer' = b \o r.bytes
             /\ returned' = Append(returned,
                    [v |-> v, err |-> r.err,
                     n |-> IF r.err = NoErr THEN Len(writer') ELSE 0])
    /\ UNCHANGED <<decVars, encVars, goVars, wireVars>>

\* Deserialize(data) of the bytes the last Serialize call returned:
\* NewDeserializer with no option
NewDeserializer ==
    /\ estate = "done" /\ fed < calls
    /\ dstate \in {"idle", "done", "failed", "panicked"}
    /\ data' = outs[Len(outs)]
    /\ opts' = [maxDepth |-> DefaultMaxDepth, maxSize |-> 0,
                maxArrayLen |-> DefaultMaxArrayLen, maxObjectKeys |-> DefaultMaxObjectKeys]
    /\ pos' = 0 /\ version' = 0 /\ depth' = 0 /\ objects' = <<>> /\ stack' = <<>>
    /\ ret' = ZeroValue /\ dstate' = "new" /\ derr' = NoErr /\ result' = ZeroValue
    /\ objTag' = <<>> /\ deepest' = 0 /\ ev' = NoEvent
    /\ tagsRead' = <<>> /\ valid' = "unset"
    /\ fed' = fed + 1
    /\ UNCHANGED <<heap, orig, buf, estack, estate, eerr, arg, outs, calls>>
    /\ UNCHANGED <<goVars, methVars, wireVars>>

\* ------------------------------------------------------------------------
\* Inputs
\* ------------------------------------------------------------------------
RECURSIVE Flatten(_)
Flatten(ss) == IF ss = <<>> THEN <<>> ELSE Head(ss) \o Flatten(Tail(ss))

\* the sequences over S of at most n elements
UpTo(S, n) == UNION {[1..k -> S] : k \in 0..n}

Header == <<tagVersion, MaxVersion>>

\* bytes the exhaustive inputs are made of: padding, small numbers, a varint
\* continuation byte, and tags of every sort
ByteAlphabet ==
    {tagPadding, 1, 2, 128, 255, tagNull, tagInt32, tagBigInt, tagOneByteString,
     tagObjectReference, tagBeginJSObject, tagEndJSObject, tagBeginDenseArray,
     tagEndDenseArray, tagRegExp, tagError}

ShortInputs == {Header \o b : b \in UpTo(ByteAlphabet, MaxShortLen)}

\* inputs that differ in the header
HeaderInputs ==
    {<<>>, <<tagVersion>>, <<tagNull, 15>>, <<tagVersion, 12>>, <<tagVersion, 13, tagNull>>,
     <<tagVersion, 14, tagNull>>, <<tagVersion, 16>>, <<tagVersion, 128>>,
     <<tagVersion, 143, 0, tagNull>>, <<tagVersion, 255, 255, 255, 255, 31>>}

StrA == <<tagOneByteString, 1, 97>>
StrB == <<tagOneByteString, 1, 98>>
Ref0 == <<tagObjectReference, 0>>
Ref1 == <<tagObjectReference, 1>>

\* the encodings the generated containers hold
PlainItems == {<<tagNull>>, StrA}
Items == PlainItems \cup {Ref0, Ref1}

DenseOf(items) ==
    <<tagBeginDenseArray, Len(items)>> \o Flatten(items) \o <<tagEndDenseArray, 0, Len(items)>>
SetOf(items) == <<tagBeginSet>> \o Flatten(items) \o <<tagEndSet, Len(items)>>
MapOf(items) == <<tagBeginMap>> \o Flatten(items) \o <<tagEndMap, Len(items)>>
ObjectOf(items) ==
    <<tagBeginJSObject>>
    \o Flatten([i \in 1..Len(items) |-> <<tagOneByteString, 1, 96 + i>> \o items[i]])
    \o <<tagEndJSObject, Len(items)>>
SparseOf(items) ==
    <<tagBeginSparseArray, Len(items)>>
    \o Flatten([i \in 1..Len(items) |-> <<tagInt32, 2 * (i - 1)>> \o items[i]])
    \o <<tagEndSparseArray, Len(items), Len(items)>>

\* a dense array nested k deep around inner
RECURSIVE Nest(_, _)
Nest(k, inner) == IF k = 0 THEN inner ELSE DenseOf(<<Nest(k - 1, inner)>>)

\* a reference inside an object is generated with at most one other key (the
\* orders in which a cyclic object can be written multiply with every level)
GeneratedInputs ==
    {Header \o b : b \in
        UNION {{DenseOf(it), SetOf(it), MapOf(it), SparseOf(it)} : it \in UpTo(Items, MaxItems)}
        \cup {ObjectOf(it) : it \in UpTo(PlainItems, MaxItems)}
        \cup {ObjectOf(<<Ref0>>), ObjectOf(<<StrA, Ref0>>), ObjectOf(<<StrA, Ref1>>),
              ObjectOf(<<Ref0, StrA>>)}
        \cup {Nest(k, <<tagNull>>) : k \in 0..(MaxItems + 1)}
        \cup {DenseOf(<<Nest(k, <<tagNull>>), Nest(j, StrA)>>) :
              k \in 0..MaxItems, j \in 0..MaxItems}}

\* payloads for the cases no short or generated input reaches
CuratedBodies ==
    {<<tagBigInt, 255, 255, 255, 255, 255, 255, 255, 255, 255, 1>>,
     <<tagBigInt, 254, 255, 255, 255, 255, 255, 255, 255, 255, 0>>,
     <<tagBigInt, 0>>, <<tagBigInt, 2, 1>>, <<tagBigInt, 3, 1>>, <<tagBigInt, 4, 0, 1>>,
     <<tagBigInt, 4, 1, 0>>, <<tagBigInt, 3, 0>>,
     <<tagBeginSparseArray, 1, tagInt32, 0>> \o Ref0 \o <<tagEndSparseArray, 1, 1>>,
     <<tagBeginSparseArray, 2, tagDouble>> \o DoubleNaN \o <<tagNull, tagEndSparseArray, 1, 2>>,
     <<tagBeginSparseArray, 2, tagDouble>> \o Double1 \o StrA \o StrB \o <<tagNull>>
        \o <<tagUint32, 5, tagNull, tagEndSparseArray, 3, 2>>,
     <<tagRegExp>> \o StrA \o <<63>>,
     <<tagRegExp, tagNull, 0>>,
     DenseOf(<<StrA, <<tagRegExp>> \o Ref0 \o <<0>>, Ref1>>),
     <<tagError, errorTypeErrorWithMessage>> \o StrA \o <<errorTagStack>> \o StrB
        \o <<errorTagCause, tagError, errorTypeEvalError, errorTagEnd, errorTagEnd>>,
     <<tagError, errorTypeTypeError, errorTagMessage>> \o StrA \o <<errorTagEnd>>,
     <<tagError, errorTypeErrorWithMessage, tagNull, errorTagMessage, tagNull, errorTagEnd>>,
     <<tagError, errorTypeRangeError, errorTagCause>> \o DenseOf(<<StrA>>) \o <<errorTagEnd>>,
     <<tagStringObject>> \o StrA, <<tagStringObject, tagNull>>,
     <<tagBigIntObject, tagBigInt, 2, 1>>, <<tagBigIntObject>> \o StrA,
     DenseOf(<<<<tagStringObject>> \o StrA, Ref0, Ref1>>),
     <<tagNumberObject>> \o Double1, <<tagTrueObject>>, <<tagFalseObject>>,
     <<tagObjectReference, 128, 128, 128, 128, 16>>,
     <<tagObjectReference, 255, 255, 255, 255, 15>>,
     DenseOf(<<StrA, <<tagObjectReference, 128, 128, 128, 128, 16>>>>),
     DenseOf(<<StrA, StrB, <<tagObjectReference, 2>>>>),
     <<tagBeginJSObject>> \o StrA \o <<tagInt32, 2>> \o StrB \o <<tagInt32, 4, tagEndJSObject, 2>>,
     <<tagBeginJSObject, tagInt32, 3, tagNull, tagUint32, 5, tagNull, tagDouble>> \o DoubleHalf
        \o <<tagNull, tagEndJSObject, 3>>,
     <<tagBeginJSObject, tagNull, tagNull, tagEndJSObject, 1>>,
     <<tagBeginJSObject>> \o StrA \o <<tagTypedArray, 13, 0>> \o StrB \o Ref0
        \o <<tagEndJSObject, 2>>,
     <<tagTypedArray, 1, 1, 7>>, <<tagTypedArray, 13, 0>>, <<tagArrayBuffer, 1, 7>>,
     <<tagTwoByteString, 2, 172, 32>>, <<tagPadding, tagTwoByteString, 2, 172, 32>>,
     <<tagTwoByteString, 4, 61, 216, 0, 222>>, <<tagTwoByteString, 2, 0, 216>>,
     <<tagOneByteString, 1, 233>>, <<tagOneByteString, 0>>,
     <<tagDate>> \o Double1e6, <<tagDate>> \o DoubleHalf, <<tagDouble>> \o Double2,
     <<tagUint32, 255, 255, 255, 255, 15>>, <<tagInt32, 255, 255, 255, 255, 15>>,
     <<tagInt32, 83>>, <<tagTrue>>, <<tagFalse>>, <<tagUndefined>>, <<tagHole>>,
     <<tagResizableArrayBuffer>>, <<tagArrayBufferTransfer, 0>>, <<tagSharedArrayBuffer, 1, 7>>,
     SetOf(<<StrA, <<tagSharedArrayBuffer>>>>),
     <<tagBeginDenseArray, 1, tagNull>> \o StrA \o <<tagNull, tagEndDenseArray, 1, 1>>,
     <<tagBeginDenseArray, 128, 173, 226, 4>>, <<tagBeginDenseArray, 129, 173, 226, 4>>,
     <<tagBeginDenseArray, 255, 255, 255, 255, 15>>,
     <<tagBeginSparseArray, 128, 173, 226, 4>>,
     <<tagBeginSparseArray, 129, 173, 226, 4>>,
     MapOf(<<StrA, <<tagInt32, 2>>, <<tagInt32, 4>>, Ref0>>),
     SetOf(<<DenseOf(<<Ref0>>), Ref1>>),
     <<tagPadding>> \o SetOf(<<<<tagNull>>, <<tagPadding, tagPadding, tagTrue>>, StrA>>),
     MapOf(<<<<tagBeginJSObject, tagEndJSObject, 0>>, <<tagNull>>>>),
     SetOf(<<<<tagHole>>>>),
     ObjectOf(<<<<tagHole>>>>),
     <<tagTwoByteString, 1>>, <<tagTwoByteString, 1, 97>>,
     <<tagTwoByteString, 3, 97, 0, 98>>, <<tagTwoByteString, 4, 97, 0, 98>>,
     DenseOf(<<<<tagTwoByteString, 2, 97, 0>>, <<tagNull>>>>),
     <<tagBeginJSObject, tagDouble>> \o Double1e6 \o <<tagNull, tagDouble>> \o Double2
        \o <<tagNull, tagEndJSObject, 2>>,
     <<tagBeginJSObject, tagTrue, tagNull, tagEndJSObject, 1>>,
     <<tagBeginJSObject, tagBigInt, 0, tagNull, tagEndJSObject, 1>>,
     <<tagBeginJSObject, tagBeginJSObject, tagEndJSObject, 0, tagNull, tagEndJSObject, 1>>,
     <<tagBeginJSObject, tagDouble>> \o DoubleNaN \o <<tagNull, tagEndJSObject, 1>>,
     <<tagTypedArray, 255, 1, 7>>, <<tagTypedArray, 13, 2, 7>>, <<tagTypedArray, 13>>,
     <<tagTypedArray, 12, 0>>,
     <<tagTwoByteString, 2, 0, 220>>, <<tagTwoByteString, 6, 97, 0, 0, 216, 98, 0>>,
     SetOf(<<<<tagTwoByteString, 2, 0, 172, 32>>>>),
     SetOf(<<<<tagTwoByteString, 4, 0, 61, 216, 0, 222>>>>),
     SetOf(<<<<tagTwoByteString, 2, 0, 172, 32>>, <<tagTwoByteString, 2, 172, 32>>>>),
     <<tagBeginJSObject, tagTwoByteString, 2, 0, 172, 32, tagNull, tagEndJSObject, 1>>}

CuratedInputs == {Header \o b : b \in CuratedBodies}

\* a RegExp for every subset of the six flags, and patterns of the three
\* string encodings
RegExpInputs ==
    {Header \o <<tagRegExp>> \o StrA \o <<f>> : f \in 0..63}
    \cup {Header \o <<tagRegExp, tagOneByteString, 1, 233, 3>>,
          Header \o <<tagRegExp, tagTwoByteString, 2, 172, 32, 63>>,
          Header \o <<tagRegExp>> \o StrA \o <<64>>}

\* the bytes that open an Error of each of the seven kinds, up to its message
ErrorHeads ==
    {<<tagError, errorTypeErrorWithMessage>>}
    \cup {<<tagError, k, errorTagMessage>> :
          k \in {errorTypeEvalError, errorTypeRangeError, errorTypeReferenceError,
                 errorTypeSyntaxError, errorTypeTypeError, errorTypeURIError}}

\* what follows the message: nothing, a stack, a cause, a stack and a cause
ErrorTails ==
    {<<errorTagEnd>>,
     <<errorTagStack>> \o StrB \o <<errorTagEnd>>,
     <<errorTagCause, tagError, errorTypeTypeError, errorTagMessage>> \o StrB
        \o <<errorTagEnd, errorTagEnd>>,
     <<errorTagStack>> \o StrB \o <<errorTagCause>> \o StrA \o <<errorTagEnd>>}

ErrorInputs ==
    {Header \o h \o StrA \o tl : h \in ErrorHeads, tl \in ErrorTails}
    \cup {Header \o <<tagError, errorTypeErrorWithMessage, tagOneByteString, 1, 233, errorTagEnd>>,
          Header \o <<tagError, errorTypeErrorWithMessage, tagOneByteString, 0, errorTagStack,
                      tagOneByteString, 0, errorTagEnd>>}

Inputs ==
    ShortInputs \cup HeaderInputs \cup GeneratedInputs \cup CuratedInputs \cup RegExpInputs
    \cup ErrorInputs

DefaultOptions ==
    [maxDepth |-> DefaultMaxDepth, maxSize |-> 0, maxArrayLen |-> DefaultMaxArrayLen,
     maxObjectKeys |-> DefaultMaxObjectKeys]

\* the option settings: the default and settings that change one limit
OptionSets ==
    {DefaultOptions}
    \cup {[DefaultOptions EXCEPT !.maxDepth = d] : d \in 0..(MaxItems + 1)}
    \cup {[DefaultOptions EXCEPT !.maxSize = n] : n \in {2, 4, 9}}
    \cup {[DefaultOptions EXCEPT !.maxArrayLen = n] : n \in {0, 1}}
    \cup {[DefaultOptions EXCEPT !.maxObjectKeys = n] : n \in {0, 1}}

\* the inputs decoded under the settings that are not the default
LimitInputs == GeneratedInputs \cup CuratedInputs

\* ------------------------------------------------------------------------
\* The Values the first Serialize call is given when no decode comes first
\* ------------------------------------------------------------------------
\* runes: "a", U+00E9, U+20AC, U+1F600
RuneAlphabet == {97, 233, 8364, 128512}

Int32Samples ==
    {IntToBits(i, 32) : i \in {0, 1, -1, 42, -42, 2147483647}}
    \cup {[k \in 1..32 |-> IF k = 32 THEN 1 ELSE 0]}

Uint32Samples ==
    {NatToBits(n, 32) : n \in {0, 1, 127, 128, 300, 2147483647}}
    \cup {[k \in 1..32 |-> IF k = 32 THEN 1 ELSE 0], [k \in 1..32 |-> 1]}

\* magnitudes as big.Int keeps them: big-endian bytes, the first not zero
Magnitudes == {m \in UpTo({0, 1, 255}, MaxShortLen) : m # <<>> /\ m[1] # 0}

Originals ==
    {Null, Undefined, Bool(TRUE), Bool(FALSE), BigInt(FALSE, <<>>)}
    \cup {Int32(n) : n \in Int32Samples}
    \cup {Uint32(n) : n \in Uint32Samples}
    \cup {BigInt(neg, m) : neg \in BOOLEAN, m \in Magnitudes}
    \cup {String(r) : r \in UpTo(RuneAlphabet, MaxShortLen)}

\* ------------------------------------------------------------------------
\* Specification
\* ------------------------------------------------------------------------
\* ------------------------------------------------------------------------
\* ToGo and toGo, one frame per toGo call.  toGo is passed the map seen and
\* passes it on; no call reads or writes it.
\* ------------------------------------------------------------------------
\* one toGo call: v its argument, rest the map keys the range loop has still
\* to visit, i the index the range loop is at, key what toGo(entry.Key) gave
GFrame(v) == [v |-> v, pc |-> "enter", rest |-> {}, i |-> 0, key |-> "nil"]

GTop == gostack[Len(gostack)]
SetGTop(f) == [gostack EXCEPT ![Len(gostack)] = f]
GAt(pc) == gostate = "running" /\ gostack # <<>> /\ GTop.pc = pc

GGoes(s) ==
    /\ gostack' = s
    /\ UNCHANGED <<gostate, goret>>
    /\ UNCHANGED <<decVars, encVars, methVars, wireVars>>

\* the call at the top goes on as top once the nested toGo(v, seen) returns;
\* when the goroutine's stack is exhausted the runtime ends the process
GCall(top, v) ==
    IF Len(gostack) >= MaxEncodeStack
    THEN /\ gostack' = <<>> /\ gostate' = "overflow"
         /\ UNCHANGED goret
         /\ UNCHANGED <<decVars, encVars, methVars, wireVars>>
    ELSE GGoes(Append(SetGTop(top), GFrame(v)))

\* toGo returns a value of Go type t; the outermost return is that of ToGo
GReturn(t) ==
    /\ gostack' = SubSeq(gostack, 1, Len(gostack) - 1)
    /\ goret' = t
    /\ gostate' = IF Len(gostack) = 1 THEN "done" ELSE gostate
    /\ UNCHANGED <<decVars, encVars, methVars, wireVars>>

\* the Go type of what toGo returns for a Value it does not descend into
GoTypeOf(v) ==
    CASE v.typ \in {"TypeUndefined", "TypeNull", "TypeHole"} -> "nil"
      [] v.typ = "TypeBool" -> "bool"
      [] v.typ = "TypeInt32" -> "int32"
      [] v.typ = "TypeUint32" -> "uint32"
      [] v.typ = "TypeDouble" -> "float64"
      [] v.typ = "TypeBigInt" -> "*big.Int"
      [] v.typ = "TypeString" -> "string"
      [] v.typ = "TypeDate" -> "time.Time"
      [] v.typ = "TypeArrayBuffer" -> "[]uint8"
      [] v.typ = "TypeTypedArray" -> "*ArrayBufferView"
      [] v.typ = "TypeRegExp" -> "*RegExp"
      [] v.typ = "TypeBoxedPrimitive" -> "*BoxedPrimitive"
      [] OTHER -> "*JSError"

\* the types toGo has a loop for
ToGoNested == {"TypeObject", "TypeArray", "TypeMap", "TypeSet"}

\* Go types that cannot be the key of a map[interface{}]interface{}
Unhashable ==
    {"map[string]interface {}", "map[interface {}]interface {}", "[]interface {}", "[]uint8"}

\* ToGo(v) of the Value a successful Deserialize returned
ToGo ==
    /\ dstate = "done" /\ orig = <<>>
    /\ gostate = "idle" /\ estate = "idle" /\ calls = 0 /\ returned = <<>>
    /\ gostack' = <<GFrame(result)>>
    /\ gostate' = "running"
    /\ UNCHANGED goret
    /\ UNCHANGED <<decVars, encVars, methVars, wireVars>>

ToGoLeaf ==
    /\ GAt("enter")
    /\ GTop.v.typ \notin ToGoNested
    /\ GReturn(GoTypeOf(GTop.v))

ToGoObject ==
    /\ GAt("enter")
    /\ GTop.v.typ = "TypeObject"
    /\ GGoes(SetGTop([GTop EXCEPT !.pc = "object", !.rest = DOMAIN heap[GTop.v.data[1]].m]))

\* one turn of "for k, val := range obj", in any order
ToGoObjectNext ==
    /\ GAt("object")
    /\ \E k \in GTop.rest :
          GCall([GTop EXCEPT !.rest = @ \ {k}], heap[GTop.v.data[1]].m[k])

ToGoObjectEnd ==
    /\ GAt("object")
    /\ GTop.rest = {}
    /\ GReturn("map[string]interface {}")

ToGoArray ==
    /\ GAt("enter")
    /\ GTop.v.typ = "TypeArray"
    /\ GGoes(SetGTop([GTop EXCEPT !.pc = "array"]))

\* one turn of "for i, val := range arr": a hole becomes nil without a call
ToGoArrayElem ==
    /\ GAt("array")
    /\ GTop.i < GTop.v.data[2]
    /\ LET val == AsArray(heap, GTop.v)[GTop.i + 1]
           top == [GTop EXCEPT !.i = @ + 1] IN
       IF val.typ = "TypeHole" THEN GGoes(SetGTop(top)) ELSE GCall(top, val)

ToGoArrayEnd ==
    /\ GAt("array")
    /\ GTop.i >= GTop.v.data[2]
    /\ GReturn("[]interface {}")

ToGoMap ==
    /\ GAt("enter")
    /\ GTop.v.typ = "TypeMap"
    /\ GGoes(SetGTop([GTop EXCEPT !.pc = "map"]))

\* k := toGo(entry.Key, seen)
ToGoMapKey ==
    /\ GAt("map")
    /\ GTop.i < Len(heap[GTop.v.data[1]].Entries)
    /\ GCall([GTop EXCEPT !.pc = "mapkey"], heap[GTop.v.data[1]].Entries[GTop.i + 1].Key)

\* val := toGo(entry.Value, seen)
ToGoMapValue ==
    /\ GAt("mapkey")
    /\ GCall([GTop EXCEPT !.pc = "mapval", !.key = goret],
             heap[GTop.v.data[1]].Entries[GTop.i + 1].Value)

\* result[k] = val: a key of a type that has no hash panics
ToGoMapStore ==
    /\ GAt("mapval")
    /\ IF GTop.key \in Unhashable
       THEN /\ gostack' = <<>> /\ gostate' = "panicked"
            /\ UNCHANGED goret
            /\ UNCHANGED <<decVars, encVars, methVars, wireVars>>
       ELSE GGoes(SetGTop([GTop EXCEPT !.pc = "map", !.i = @ + 1, !.key = "nil"]))

ToGoMapEnd ==
    /\ GAt("map")
    /\ GTop.i >= Len(heap[GTop.v.data[1]].Entries)
    /\ GReturn("map[interface {}]interface {}")

ToGoSet ==
    /\ GAt("enter")
    /\ GTop.v.typ = "TypeSet"
    /\ GGoes(SetGTop([GTop EXCEPT !.pc = "set"]))

ToGoSetValue ==
    /\ GAt("set")
    /\ GTop.i < Len(heap[GTop.v.data[1]].Values)
    /\ GCall([GTop EXCEPT !.i = @ + 1], heap[GTop.v.data[1]].Values[GTop.i + 1])

ToGoSetEnd ==
    /\ GAt("set")
    /\ GTop.i >= Len(heap[GTop.v.data[1]].Values)
    /\ GReturn("[]interface {}")

\* ------------------------------------------------------------------------
\* wire.Writer and wire.Reader used on their own
\* ------------------------------------------------------------------------
MaxOps == 2

\* the uint64 values 2^k - 1, 2^k where the varint gets one byte longer, and 256
Ones(k) == [i \in 1..64 |-> IF i <= k THEN 1 ELSE 0]
PowerOfTwo(k) == [i \in 1..64 |-> IF i = k + 1 THEN 1 ELSE 0]

VarintSamples ==
    {Ones(k) : k \in 0..64} \cup {PowerOfTwo(7 * k) : k \in 1..9} \cup {PowerOfTwo(8)}

\* nine bytes with the continuation bit set
NineBytes == {[i \in 1..9 |-> 255], [i \in 1..9 |-> 128]}

RawInputs ==
    {<<>>, <<0>>, <<1, 2, 3>>, <<128>>, <<255, 255, 3>>, <<128, 0>>}
    \cup {[i \in 1..9 |-> 255]}
    \cup {h \o <<b>> : h \in NineBytes, b \in {0, 1, 2, 3, 64, 127}}
    \cup {h \o <<b, 0>> : h \in NineBytes, b \in {128, 129, 130, 255}}
    \cup {<<7>> \o [i \in 1..9 |-> 255] \o <<b>> : b \in {1, 2}}

\* the int arguments of ReadBytes and Skip; the last is the largest int
MaxInt == [i \in 1..64 |-> IF i <= 63 THEN 1 ELSE 0]
Lengths == {NatToBits(k, 64) : k \in 0..2} \cup {MaxInt}

NoCall == [op |-> "none", k |-> <<>>, from |-> Zero64, err |-> NoErr, val |-> <<>>]

\* w := NewWriter(n); w.WriteVarint(u)
WriteVarintCall ==
    /\ rstate = "none" /\ wrote = <<>>
    /\ \E u \in VarintSamples :
          /\ wbuf' = WriteVarint(u)
          /\ wrote' = <<u>>
    /\ UNCHANGED <<rdata, rpos, rstate, rof, rlast, nops>>
    /\ UNCHANGED <<decVars, encVars, goVars, methVars>>

\* NewReader(data), data being w.Bytes() or bytes from elsewhere
NewReader ==
    /\ rstate = "none"
    /\ IF wrote # <<>> THEN rdata' = wbuf /\ rof' = wrote
       ELSE rdata' \in RawInputs /\ rof' = <<>>
    /\ rpos' = Zero64 /\ rstate' = "open"
    /\ UNCHANGED <<wbuf, wrote, rlast, nops>>
    /\ UNCHANGED <<decVars, encVars, goVars, methVars>>

\* a Reader call returns e and v and leaves the cursor at p
ReaderReturns(op, k, e, p, v) ==
    /\ rlast' = [op |-> op, k |-> k, from |-> rpos, err |-> e, val |-> v]
    /\ rpos' = p
    /\ rstate' = IF e = Panic THEN "panicked" ELSE "open"
    /\ nops' = nops + 1
    /\ UNCHANGED <<wbuf, wrote, rdata, rof>>
    /\ UNCHANGED <<decVars, encVars, goVars, methVars>>

\* r.ReadVarint(); r.data[r.pos] panics when r.pos is negative
ReadVarintCall ==
    /\ rstate = "open" /\ nops < MaxOps
    /\ IF IsNegative(rpos) THEN ReaderReturns("ReadVarint", <<>>, Panic, rpos, Zero64)
       ELSE LET r == ReadVarint(rdata, BitsToNat(rpos)) IN
            ReaderReturns("ReadVarint", <<>>, r.err, NatToBits(r.pos, 64), r.val)

\* r.ReadBytes(k); the slice expression panics when r.pos is negative
ReadBytesCall ==
    /\ rstate = "open" /\ nops < MaxOps
    /\ \E k \in Lengths :
          IF IsNegative(rpos)
          THEN ReaderReturns("ReadBytes", k,
                             IF SignedGreater(AddBits(rpos, k), Len(rdata))
                             THEN ErrUnexpectedEOF ELSE Panic, rpos, <<>>)
          ELSE LET r == ReadBytes(rdata, BitsToNat(rpos), k) IN
               ReaderReturns("ReadBytes", k, r.err, NatToBits(r.pos, 64), r.val)

\* Skip(n) of a Reader with cursor pos (an int) and len(r.data) = len:
\* [err, pos]; r.pos+n wraps
Skip(len, p, n) ==
    LET end == AddBits(p, n) IN
    IF SignedGreater(end, len) THEN [err |-> ErrUnexpectedEOF, pos |-> p]
    ELSE [err |-> NoErr, pos |-> end]

\* r.Skip(k)
SkipCall ==
    /\ rstate = "open" /\ nops < MaxOps
    /\ \E k \in Lengths :
          LET r == Skip(Len(rdata), rpos, k) IN
          ReaderReturns("Skip", k, r.err, r.pos, <<>>)

Init ==
    /\ \/ /\ orig = <<>>
          /\ dstate = "new"
          /\ \/ data \in Inputs /\ opts = DefaultOptions
             \/ data \in LimitInputs /\ opts \in OptionSets \ {DefaultOptions}
       \/ /\ orig \in {<<v>> : v \in Originals}
          /\ dstate = "idle"
          /\ data = <<>> /\ opts = DefaultOptions
    /\ pos = 0 /\ version = 0 /\ depth = 0 /\ objects = <<>> /\ heap = <<>> /\ stack = <<>>
    /\ ret = ZeroValue /\ derr = NoErr /\ result = ZeroValue
    /\ objTag = <<>> /\ deepest = 0 /\ ev = NoEvent
    /\ buf = <<>> /\ estack = <<>> /\ estate = "idle" /\ eerr = NoErr /\ arg = ZeroValue
    /\ outs = <<>> /\ calls = 0 /\ fed = 0
    /\ tagsRead = <<>> /\ valid = "unset"
    /\ gostack = <<>> /\ gostate = "idle" /\ goret = "nil"
    /\ writer = <<>> /\ returned = <<>>
    /\ wbuf = <<>> /\ wrote = <<>> /\ rdata = <<>> /\ rpos = Zero64 /\ rstate = "none"
    /\ rof = <<>> /\ rlast = NoCall /\ nops = 0

Next ==
    \/ IsValidV8DataCall \/ Deserialize \/ ReadHeader \/ SerializerSerialize
    \/ ReadValueEnter \/ ReadValueSkipPadding \/ ReadValueDispatch
    \/ ReadObjectBegin \/ ReadObjectLoop \/ ReadObjectKey \/ ReadObjectVal
    \/ ReadDenseArrayBegin \/ ReadDenseArrayElems \/ ReadDenseArrayElem
    \/ ReadDenseArrayProps \/ ReadDenseArrayPropKey \/ ReadDenseArrayPropVal
    \/ ReadSparseArrayBegin \/ ReadSparseArrayLoop \/ ReadSparseArrayKey \/ ReadSparseArrayVal
    \/ ReadMapBegin \/ ReadMapLoop \/ ReadMapKey \/ ReadMapVal
    \/ ReadSetBegin \/ ReadSetLoop \/ ReadSetVal
    \/ ReadRegExpBegin \/ ReadRegExpPattern
    \/ ReadStringObjectBegin \/ ReadStringObjectInner
    \/ ReadBigIntObjectBegin \/ ReadBigIntObjectInner
    \/ ReadErrorBegin \/ ReadErrorMessage \/ ReadErrorSub \/ ReadErrorSubVal
    \/ Serialize \/ WriteValue
    \/ WriteObject \/ WriteObjectNext \/ WriteObjectEnd
    \/ WriteArray \/ WriteArrayElem \/ WriteArrayEnd
    \/ WriteMap \/ WriteMapKey \/ WriteMapValue \/ WriteMapEnd
    \/ WriteSet \/ WriteSetValue \/ WriteSetEnd
    \/ WriteError \/ WriteErrorEnd
    \/ NewDeserializer
    \/ ToGo \/ ToGoLeaf
    \/ ToGoObject \/ ToGoObjectNext \/ ToGoObjectEnd
    \/ ToGoArray \/ ToGoArrayElem \/ ToGoArrayEnd
    \/ ToGoMap \/ ToGoMapKey \/ ToGoMapValue \/ ToGoMapStore \/ ToGoMapEnd
    \/ ToGoSet \/ ToGoSetValue \/ ToGoSetEnd

Spec == Init /\ [][Next]_vars

\* a Writer and a Reader of package wire called directly, no Deserializer or
\* Serializer at work
WireInit == Init /\ orig = <<>> /\ data = <<>> /\ opts = DefaultOptions

WireNext == WriteVarintCall \/ NewReader \/ ReadVarintCall \/ ReadBytesCall \/ SkipCall

WireSpec == WireInit /\ [][WireNext]_vars

\* ------------------------------------------------------------------------
\* Properties
\* ------------------------------------------------------------------------
\* the last step read an ObjectReference tag
ReadAReference == ev.op = "leaf" /\ ev.tag = tagObjectReference

\* the ID of that reference as the varint on the wire gives it (64 bits)
WireID == ReadVarint(data, ev.at)

\* what following a Value yields: the elements of an array, the struct or map
\* of another container
Contents(h, v) == IF v.typ = "TypeArray" THEN AsArray(h, v) ELSE h[v.data[1]]

\* C1: Deserialize returns a Value or an error for every input and every option
\* setting; it never panics, whatever length the input declares.
C1_NeverPanics == dstate # "panicked"

\* C2: a container of the five placeholder kinds is in the reference table
\* while its contents are read, and once decode completes a back-reference
\* that was read from inside the container's own contents yields that
\* container with all of its final contents.
C2_BackReferenceYieldsContainer ==
    /\ \A k \in 1..Len(stack) :
          (stack[k].fn \in PlaceholderHandlers /\ stack[k].pc # "begin")
          => /\ stack[k].idx \in 1..Len(objects)
             /\ objects[stack[k].idx].data[1] = stack[k].ptr
    /\ (dstate = "done" /\ ReadAReference /\ ev.err = NoErr
        /\ (BitsToNat(WireID.val) + 1) \in ev.open)
       => Contents(heap, ev.val) = Contents(heap, objects[BitsToNat(WireID.val) + 1])

\* C3: reference IDs follow the order of the tag bytes: of any two tabled
\* values, the one whose tag byte comes first has the smaller ID.
C3_IdsFollowTagOrder ==
    \A i, j \in 1..Len(objTag) : (objTag[i] < objTag[j]) => (i < j)

\* C4 as stated: a reference whose ID is at least the size of the table fails
\* with InvalidReference, one with a smaller ID returns the entry of that ID.
C4_AnyIdOutsideTableIsInvalidReference ==
    (ReadAReference /\ WireID.err = NoErr)
    => IF ~FitsIn(WireID.val, 30) \/ BitsToNat(WireID.val) >= Len(ev.table)
       THEN ev.err = ErrInvalidReference
       ELSE ev.err = NoErr /\ ev.val = ev.table[BitsToNat(WireID.val) + 1]

\* C4 amended: a reference whose ID does not fit in 32 bits fails with
\* VarintOverflow; one whose ID fits in 32 bits fails with InvalidReference
\* when the ID is at least the size of the table and returns the entry of that
\* ID when it is smaller.
C4_Uint32IdOutsideTableIsInvalidReference ==
    (ReadAReference /\ WireID.err = NoErr)
    => IF ~FitsIn(WireID.val, 32) THEN ev.err = ErrVarintOverflow
       ELSE IF ~FitsIn(WireID.val, 30) \/ BitsToNat(WireID.val) >= Len(ev.table)
       THEN ev.err = ErrInvalidReference
       ELSE ev.err = NoErr /\ ev.val = ev.table[BitsToNat(WireID.val) + 1]

\* a reference to the second of at least two entries was read and returned
C4_Witness ==
    /\ ReadAReference /\ ev.err = NoErr
    /\ Len(ev.table) >= 2 /\ BitsToNat(WireID.val) = 1

\* the Values writeValue is called with while it writes v
Kids(h, v) ==
    CASE v.typ = "TypeObject" -> {h[v.data[1]].m[k] : k \in DOMAIN h[v.data[1]].m}
      [] v.typ = "TypeArray" -> {ElemAt(h[v.data[1]], i) : i \in 0..(v.data[2] - 1)}
      [] v.typ = "TypeMap" ->
            UNION {{e.Key, e.Value} : e \in {h[v.data[1]].Entries[i] :
                                             i \in 1..Len(h[v.data[1]].Entries)}}
      [] v.typ = "TypeSet" -> {h[v.data[1]].Values[i] : i \in 1..Len(h[v.data[1]].Values)}
      [] v.typ = "TypeError" -> {h[v.data[1]].Cause[i] : i \in 1..Len(h[v.data[1]].Cause)}
      [] OTHER -> {}

RECURSIVE Closure(_, _)
Closure(h, S) ==
    LET T == S \cup UNION {Kids(h, w) : w \in S} IN
    IF T = S THEN S ELSE Closure(h, T)

\* the graph of v contains a cycle
Cyclic(h, v) == \E w \in Closure(h, {v}) : w \in Closure(h, Kids(h, w))

C6_StringRoundTrip ==
    (orig # <<>> /\ fed = 1 /\ dstate \in {"done", "failed", "panicked"}
     /\ arg.typ = "TypeString")
    => (dstate = "done" /\ result = orig[1])

\* the types of C7
C7Types == {"TypeNull", "TypeUndefined", "TypeBool", "TypeInt32", "TypeUint32", "TypeBigInt"}

\* C7: for Null, Undefined, Bool, Int32, Uint32 and BigInt values,
\* Deserialize(Serialize(v)) succeeds and returns a value of the same variant
\* with the same payload.
C7_PrimitiveRoundTrip ==
    (orig # <<>> /\ orig[1].typ \in C7Types)
    => /\ estate \in {"idle", "running", "done"}
       /\ (fed >= 1) => dstate \notin {"failed", "panicked"}
       /\ (fed >= 1 /\ dstate = "done") => result = orig[1]

\* a negative BigInt of two bytes came back from the round trip
C7_Witness ==
    /\ orig # <<>> /\ fed = 1 /\ dstate = "done"
    /\ orig[1].typ = "TypeBigInt" /\ Len(orig[1].data) = 3 /\ orig[1].data[1] = 1
    /\ result = orig[1]

\* C8: for every acyclic Value v that Serialize accepts,
\* Serialize(Deserialize(Serialize(v))) equals Serialize(v) byte for byte.
C8_ReserializeSameBytes ==
    (Len(outs) = 2 /\ ~Cyclic(heap, arg)) => outs[2] = outs[1]

\* C9: decode fails with MaxDepthExceeded exactly when a readValue call is
\* entered at a nesting level above max_depth (the root is level 1), and the
\* depth counter equals the number of readValue calls that are active, so that
\* it is back at the caller's level whenever a value read returns.
C9_DepthLimit ==
    /\ (dstate = "failed" /\ derr = ErrMaxDepthExceeded) <=> (deepest > opts.maxDepth)
    /\ dstate = "running"
       => depth = Len(stack) - (IF Top.fn = "readValue" /\ Top.pc = "enter" THEN 1 ELSE 0)
    /\ dstate = "done" => depth = 0

\* two siblings at the deepest level the limit allows were read
C9_Witness ==
    /\ dstate = "done" /\ deepest = opts.maxDepth
    /\ result.typ = "TypeArray" /\ result.data[2] >= 2

\* C10: an input longer than max_size (when max_size > 0) fails with
\* MaxSizeExceeded before any byte is read, and an array whose declared length
\* exceeds max_array_len fails before its storage is allocated and before it
\* gets a reference table entry.
C10_RejectedBeforeAllocation ==
    /\ (opts.maxSize > 0 /\ Len(data) > opts.maxSize /\ dstate # "new")
       => (dstate = "failed" /\ derr = ErrMaxSizeExceeded)
    /\ (dstate = "failed" /\ derr = ErrMaxSizeExceeded)
       => (pos = 0 /\ heap = <<>> /\ objects = <<>>)
    /\ (ev.op = "array" /\ ev.err = NoErr
        /\ (~FitsIn(ev.length, 30) \/ BitsToNat(ev.length) > opts.maxArrayLen))
       => /\ dstate = "failed"
          /\ Len(heap) = ev.cells /\ Len(objects) = ev.entries

\* an array inside a Set declared more elements than max_array_len allows
C10_Witness ==
    /\ ev.op = "array" /\ ev.err = NoErr /\ ev.entries >= 1
    /\ BitsToNat(ev.length) > opts.maxArrayLen
    /\ dstate = "failed" /\ derr = ErrMalformedData

\* the key counts of the Objects a decode built
ObjectKeyCounts == {Cardinality(DOMAIN heap[a].m) : a \in {b \in 1..Len(heap) : heap[b].kind = "map"}}

\* C11: with max_object_keys = K, no Object of a successful decode holds more
\* than K keys (a decode of an object that accumulates more than K fails).
C11_ObjectKeysWithinLimit ==
    dstate = "done" => \A n \in ObjectKeyCounts : n <= opts.maxObjectKeys

\* the places a decoder loop starts its next turn at
LoopHeads ==
    {<<"readValue", "pad">>, <<"readObject", "loop">>, <<"readDenseArray", "elems">>,
     <<"readDenseArray", "props">>, <<"readSparseArray", "loop">>, <<"readMap", "loop">>,
     <<"readSet", "loop">>, <<"readError", "sub">>}

\* every value read dispatched on a byte of the input that lies after the
\* bytes the reads before it dispatched on
TagsAdvance ==
    \A i \in 1..Len(tagsRead) :
        /\ tagsRead[i] < Len(data)
        /\ i > 1 => tagsRead[i - 1] < tagsRead[i]

\* a step of a decode does not move the cursor backwards, and a step that
\* leaves a loop at the start of a turn without calling readValue, returning
\* or failing has consumed input
CursorAdvances ==
    /\ (dstate # "new" /\ dstate' # "new") => pos' >= pos
    /\ (/\ dstate = "running" /\ dstate' = "running"
        /\ <<Top.fn, Top.pc>> \in LoopHeads
        /\ Len(stack') = Len(stack)
        /\ stack'[Len(stack')].fn = Top.fn /\ stack'[Len(stack')].pc = Top.pc)
       => pos' > pos

\* C12: decoding terminates: the cursor never moves backwards, every turn of
\* a decoder loop consumes input, calls readValue, returns or fails, and every
\* readValue call that gets to its tag consumes a new byte, so that the value
\* reads (and the calls active at once) are bounded by the length of the input.
C12_DecodeTerminates ==
    /\ [](TagsAdvance /\ pos <= Len(data) /\ Len(stack) <= Len(tagsRead) + 1
          /\ Len(tagsRead) <= Len(data))
    /\ [][CursorAdvances]_vars

\* a Set of three values behind a padding byte was decoded
C12_Witness ==
    /\ dstate = "done" /\ result.typ = "TypeSet" /\ Len(tagsRead) >= 4
    /\ tagsRead[1] > 2

\* the version varint of the input, read at 64 bits
VersionVarint == ReadVarint(data, 1)

\* the input has no version tag or no version varint that can be read (as the
\* 32-bit number the version is)
HeaderUnreadable ==
    \/ Len(data) = 0
    \/ data[1] # 255
    \/ VersionVarint.err # NoErr
    \/ ~FitsIn(VersionVarint.val, 32)

VersionSupported == FitsIn(VersionVarint.val, 30) /\ BitsToNat(VersionVarint.val) \in 13..15

\* readHeader has run
HeaderChecked ==
    /\ dstate \in {"running", "done", "failed", "panicked"}
    /\ ~(dstate = "failed" /\ derr = ErrMaxSizeExceeded)

ReadingSteps ==
    {<<"readValue", "pad">>, <<"readObject", "loop">>, <<"readDenseArray", "begin">>,
     <<"readDenseArray", "props">>, <<"readSparseArray", "begin">>,
     <<"readSparseArray", "loop">>, <<"readMap", "loop">>, <<"readSet", "loop">>,
     <<"readError", "begin">>, <<"readError", "sub">>}

\* the input continued by zero bytes
Continued == data \o [i \in 1..16 |-> 0]

\* the payload of the leaf read last reaches beyond the end of the input: on the
\* continued input the read goes beyond it
PayloadCutShort ==
    /\ ev.op = "leaf" /\ ev.err # NoErr
    /\ LET r == dispatchLeaf(ev.tag, Continued, ev.at, ev.table, 0) IN
       r.pos > Len(data) \/ r.err = ErrUnexpectedEOF

\* a step that needs a byte at the cursor while the cursor is at the end
NeedsByteAtEnd == dstate = "running" /\ pos >= Len(data) /\ <<Top.fn, Top.pc>> \in ReadingSteps

\* C14: after a valid header, a decode that needs a byte beyond the end of the
\* input fails with UnexpectedEof: where a value tag (or another byte read
\* first) is expected, and inside the varint, double, string or buffer of a leaf.
C14_EofIsUnexpectedEof ==
    /\ [](PayloadCutShort => (dstate = "failed" /\ derr = ErrUnexpectedEOF))
    /\ [][NeedsByteAtEnd => (dstate' = "failed" /\ derr' = ErrUnexpectedEOF)]_vars

\* the tags of the buffers the decoder does not support
ReservedTags == {tagSharedArrayBuffer, tagArrayBufferTransfer, tagResizableArrayBuffer}

\* the kind the specification names for them; the code declares no such error
ErrUnsupportedFeature == "ErrUnsupportedFeature"

\* C15 as stated: a value tag of 'u', 't' or '~' fails with UnsupportedFeature,
\* a kind different from the UnexpectedTag of a byte that is no tag.
C15_ReservedTagIsUnsupportedFeature ==
    (ev.op = "leaf" /\ ev.tag \in ReservedTags)
    => (dstate = "failed" /\ derr = ErrUnsupportedFeature /\ derr # ErrUnexpectedTag)

\* C15 amended: a value tag of 'u', 't' or '~' fails with UnexpectedTag, the
\* same kind as for a byte that is no tag at all.
C15_ReservedTagIsUnexpectedTag ==
    (ev.op = "leaf" /\ (ev.tag \in ReservedTags \/ ev.tag \in {1, 2, 128, 255}))
    => (ev.err = ErrUnexpectedTag /\ dstate = "failed" /\ derr = ErrUnexpectedTag)

\* a SharedArrayBuffer tag was read as the second value of a Set
C15_Witness ==
    /\ ev.op = "leaf" /\ ev.tag = tagSharedArrayBuffer /\ Len(ev.table) >= 2
    /\ dstate = "failed" /\ derr = ErrUnexpectedTag

\* ZigZag of a small integer: 0, -1, 1, -2, 2, ... are 0, 1, 2, 3, 4, ...
ZigZagOfInt(i) == IF i >= 0 THEN 2 * i ELSE (-2 * i) - 1

\* the base-128 varint of a natural number
RECURSIVE VarintOfNat(_)
VarintOfNat(n) == IF n < 128 THEN <<n>> ELSE <<128 + (n % 128)>> \o VarintOfNat(n \div 128)

SmallInts == {0, 1, -1, 42, -42}

\* the canonical bytes of the values C16 names, header included
CanonicalBytes(v) ==
    CASE v = Null -> <<255, 15, 48>>
      [] v = Undefined -> <<255, 15, 95>>
      [] v = Bool(TRUE) -> <<255, 15, 84>>
      [] v = Bool(FALSE) -> <<255, 15, 70>>
      [] v = String(<<>>) -> <<255, 15, 34, 0>>
      [] v = Int32(IntToBits(2147483647, 32)) -> <<255, 15, 73, 254, 255, 255, 255, 15>>
      [] v = Int32([k \in 1..32 |-> IF k = 32 THEN 1 ELSE 0]) -> <<255, 15, 73, 255, 255, 255, 255, 15>>
      [] OTHER -> LET i == CHOOSE j \in SmallInts : v = Int32(IntToBits(j, 32)) IN
                  <<255, 15, 73>> \o VarintOfNat(ZigZagOfInt(i))

C16Values ==
    {Null, Undefined, Bool(TRUE), Bool(FALSE), String(<<>>)}
    \cup {Int32(n) : n \in Int32Samples}

\* C16: Serialize emits FF 0F and the canonical tag and payload: 30 for Null,
\* 5F for Undefined, 54 and 46 for the Bools, 49 and the varint of ZigZag32(i)
\* for Int32(i), 22 00 for the empty string; Int32(42) gives ff 0f 49 54 and
\* Int32(-42) gives ff 0f 49 53.
C16_CanonicalPrimitiveBytes ==
    /\ CanonicalBytes(Int32(IntToBits(42, 32))) = <<255, 15, 73, 84>>
    /\ CanonicalBytes(Int32(IntToBits(-42, 32))) = <<255, 15, 73, 83>>
    /\ (orig # <<>> /\ calls >= 1 /\ ~(calls = 1 /\ estate = "running"))
       => (orig[1] \in C16Values
           => (Len(outs) >= 1 /\ outs[1] = CanonicalBytes(orig[1])))

\* Int32(-42) was serialized
C16_Witness ==
    /\ orig = <<Int32(IntToBits(-42, 32))>> /\ estate = "done" /\ calls = 1
    /\ outs = <<<<255, 15, 73, 83>>>>

\* the header check of Deserialize has failed
HeaderRejected == dstate = "failed" /\ derr \in {ErrInvalidHeader, ErrUnsupportedVersion}

\* C17: IsValidV8Data(b) is true exactly when the header check of
\* Deserialize(b) passes (0xFF and a version varint in 13..15); in particular
\* a true answer means Deserialize(b) fails with neither InvalidHeader nor
\* UnsupportedVersion.
C17_IsValidIffHeaderPasses ==
    HeaderChecked =>
        /\ (valid = "true") <=> ~HeaderRejected
        /\ ~HeaderRejected <=> (~HeaderUnreadable /\ VersionSupported)

\* C18: ToGo(v) terminates for every Value v a successful Deserialize
\* returned, also one that reaches itself through a back-reference: no toGo
\* call converts a Value that an enclosing toGo call is converting (with
\* nothing else to tell the two calls apart the inner one repeats the outer
\* one for ever), and the stack is never exhausted.
C18_ToGoTerminates ==
    /\ gostate # "overflow"
    /\ \A i, j \in 1..Len(gostack) : (i < j) => gostack[i].v # gostack[j].v

\* the tags of the kinds C19 lists as tabled
TabledTags ==
    {tagOneByteString, tagTwoByteString, tagDate, tagBeginJSObject, tagBeginDenseArray,
     tagBeginSparseArray, tagBeginMap, tagBeginSet, tagArrayBuffer, tagTypedArray, tagRegExp,
     tagError, tagNumberObject, tagBigIntObject, tagTrueObject, tagFalseObject,
     tagStringObject}

\* the offsets of the tag bytes of the reads that are to append an entry
TabledReads == {tagsRead[k] : k \in {j \in 1..Len(tagsRead) : data[tagsRead[j] + 1] \in TabledTags}}

\* every entry was appended by the read of a tag of a tabled kind, no read has
\* appended two, and once decode has succeeded every such read has appended one
OneEntryPerTabledRead ==
    /\ Len(objTag) = Len(objects)
    /\ \A i \in 1..Len(objTag) : objTag[i] \in TabledReads
    /\ \A i, j \in 1..Len(objTag) : (i # j) => objTag[i] # objTag[j]
    /\ (dstate = "done") => \A p \in TabledReads : \E i \in 1..Len(objTag) : objTag[i] = p

\* a step of one decode appends at most one entry
TableGrowsByAppend ==
    (dstate' # "new")
    => /\ Len(objects') \in {Len(objects), Len(objects) + 1}
       /\ Len(objects') = Len(objects) + 1 => Len(tagsRead') <= Len(tagsRead) + 1

\* a step of one decode leaves every existing ID bound to the Value it had
TableKeepsEntries ==
    (dstate' # "new")
    => /\ Len(objects') >= Len(objects)
       /\ \A i \in 1..Len(objects) : objects'[i] = objects[i]

\* C19: during one decode the reference table is append-only with consecutive
\* IDs from 0: each read of a String, Date, Object, dense or sparse array, Map,
\* Set, ArrayBuffer, typed array, RegExp, Error or boxed primitive appends
\* exactly one entry, reads of the other kinds append none, and an existing ID
\* is never removed or rebound to a different value.
C19_TableIsAppendOnly ==
    /\ [](OneEntryPerTabledRead)
    /\ [][TableGrowsByAppend /\ TableKeepsEntries]_vars

\* the Values the cell c holds outside the elements of an array
NonElementValues(c) ==
    CASE c.kind = "map" -> {c.m[k] : k \in DOMAIN c.m}
      [] c.kind = "JSMap" -> UNION {{c.Entries[i].Key, c.Entries[i].Value} : i \in 1..Len(c.Entries)}
      [] c.kind = "JSSet" -> {c.Values[i] : i \in 1..Len(c.Values)}
      [] c.kind = "JSError" -> {c.Cause[i] : i \in 1..Len(c.Cause)}
      [] OTHER -> {}

\* C20: in a successfully decoded value a Hole occurs only as an element of an
\* array: not as the root value, as a property value of an object, as a key or
\* value of a Map, as a value of a Set or as the cause of an Error.
C20_HoleOnlyInArrays ==
    (dstate = "done")
    => /\ result # Hole
       /\ \A a \in 1..Len(heap) : Hole \notin NonElementValues(heap[a])

\* the last step read a TwoByteString tag
ReadATwoByteString == ev.op = "leaf" /\ ev.tag = tagTwoByteString

\* the byte-length the string declares, as the varint after the tag gives it
DeclaredByteLength == ReadVarint32(data, ev.at)

\* where the payload starts: the offset after the length, aligned to 2 when
\* there is a byte to skip
PayloadStart ==
    LET p == DeclaredByteLength.pos IN
    IF p % 2 = 1 /\ p + 1 <= Len(data) THEN p + 1 ELSE p

\* the UTF-16LE code units of the n bytes from offset p
CodeUnits(p, n) == [i \in 1..(n \div 2) |-> data[p + 2 * i - 1] + 256 * data[p + 2 * i]]

\* C21: a TwoByteString whose declared byte-length is odd fails with
\* MalformedData; an even byte-length L reads exactly L payload bytes as L/2
\* UTF-16LE code units.
C21_TwoByteLength ==
    (ReadATwoByteString /\ DeclaredByteLength.err = NoErr /\ FitsIn(DeclaredByteLength.val, 20))
    => LET L == BitsToNat(DeclaredByteLength.val) IN
       IF L % 2 = 1 THEN ev.err = ErrMalformedData
       ELSE IF PayloadStart + L > Len(data) THEN ev.err = ErrUnexpectedEOF
       ELSE /\ ev.err = NoErr
            /\ ev.end = (IF L = 0 THEN DeclaredByteLength.pos ELSE PayloadStart + L)
            /\ ev.val = String(Utf16Decode(CodeUnits(PayloadStart, L)))

\* the decimal digits of a natural number
RECURSIVE DecimalOfNat(_)
DecimalOfNat(n) == IF n < 10 THEN <<48 + n>> ELSE DecimalOfNat(n \div 10) \o <<48 + (n % 10)>>

\* the decimal string of an integer
DecimalOfInt(i) == IF i < 0 THEN <<45>> \o DecimalOfNat(-i) ELSE DecimalOfNat(i)

\* the integer a 32-bit two's complement word stands for
Int32Value(b) ==
    IF b[32] = 1 THEN (-BitsToNat(SubSeq(NotBits(b), 1, 31))) - 1 ELSE BitsToNat(SubSeq(b, 1, 31))

\* the doubles of the inputs that are integers, with the integer
IntegralDoubles == {<<Double0, 0>>, <<Double1, 1>>, <<Double2, 2>>, <<Double1e6, 1000000>>}

\* the decimal strings a key Value may become; {} when the key is of a kind
\* that is to be refused (-0 may be written with or without its sign)
KeyStrings(v) ==
    CASE v.typ = "TypeString" -> {v.data}
      [] v.typ = "TypeInt32" -> {DecimalOfInt(Int32Value(v.data))}
      [] v.typ = "TypeUint32" /\ FitsIn(v.data, 31) -> {DecimalOfNat(BitsToNat(SubSeq(v.data, 1, 31)))}
      [] v.typ = "TypeDouble" /\ v.data = DoubleNeg0 -> {<<48>>, <<45, 48>>}
      [] v.typ = "TypeDouble" /\ v.data # DoubleNeg0 ->
            {DecimalOfInt(d[2]) : d \in {e \in IntegralDoubles : e[1] = v.data}}
      [] OTHER -> {}

\* the step after readObject has read a key
ObjectKeyStep ==
    At("readObject", "key")
    => IF KeyStrings(ret) = {}
       THEN dstate' = "failed" /\ derr' = ErrMalformedData
       ELSE /\ dstate' = "running"
            /\ stack'[Len(stack)].key \in KeyStrings(ret)

\* C22: when an Object is decoded, a key that decodes to a String is used as
\* is, a key that decodes to Int32, Uint32 or an integral Double becomes its
\* decimal string, and a key of any other kind (a non-integral Double, Bool,
\* Null, BigInt, a container) fails with MalformedData.
C22_ObjectKeys == [][ObjectKeyStep]_vars

\* the last step read a typed-array tag and its sub-kind byte
ReadATypedArray == ev.op = "leaf" /\ ev.tag = tagTypedArray /\ ev.at < Len(data)

\* the sub-kind byte
SubKind == data[ev.at + 1]

KnownKinds == 0..12

\* the names of the known kinds
KnownKindNames ==
    {<<"Int8Array">>, <<"Uint8Array">>, <<"Uint8ClampedArray">>, <<"Int16Array">>,
     <<"Uint16Array">>, <<"Int32Array">>, <<"Uint32Array">>, <<"Float32Array">>,
     <<"Float64Array">>, <<"DataView">>, <<"Float16Array">>, <<"BigInt64Array">>,
     <<"BigUint64Array">>}

\* the ArrayBufferViews of the heap
Views == {heap[a] : a \in {b \in 1..Len(heap) : heap[b].kind = "ArrayBufferView"}}

\* the declared byte-length of the view and whether its payload is all there
ViewLength == ReadVarint32(data, ev.at + 1)
ViewComplete ==
    /\ ViewLength.err = NoErr /\ FitsIn(ViewLength.val, 20)
    /\ ViewLength.pos + BitsToNat(ViewLength.val) <= Len(data)

\* C23 as stated: a typed-array tag whose sub-kind byte is not one of 0..12
\* fails with UnexpectedTag, and no ArrayBufferView with an unknown kind is
\* ever returned.
C23_UnknownKindIsUnexpectedTag ==
    /\ (ReadATypedArray /\ SubKind \notin KnownKinds) => ev.err = ErrUnexpectedTag
    /\ \A w \in Views : w.Type \in KnownKindNames

\* C23 amended: a typed-array tag whose sub-kind byte k is not one of 0..12 never
\* fails with UnexpectedTag: when its byte-length and payload can be read the
\* read succeeds and returns an ArrayBufferView whose Type is "TypedArray(k)",
\* otherwise it fails with the error of the read that was cut short.
C23_UnknownKindIsNamedByNumber ==
    (ReadATypedArray /\ SubKind \notin KnownKinds)
    => IF ViewComplete
       THEN /\ ev.err = NoErr /\ ev.val.typ = "TypeTypedArray"
            /\ heap[ev.val.data[1]].Type = <<"TypedArray(%d)", SubKind>>
       ELSE ev.err \in {ErrUnexpectedEOF, ErrVarintOverflow}

\* a typed array of sub-kind 13 was decoded
C23_Witness ==
    /\ dstate = "done" /\ ReadATypedArray /\ SubKind = 13 /\ ev.err = NoErr
    /\ result = ev.val /\ heap[result.data[1]].Type = <<"TypedArray(%d)", 13>>

\* the code units of u hold a surrogate that is not half of a pair
RECURSIVE HasUnpairedSurrogate(_)
HasUnpairedSurrogate(u) ==
    IF u = <<>> THEN FALSE
    ELSE IF u[1] >= 55296 /\ u[1] < 56320 /\ Len(u) >= 2 /\ u[2] >= 56320 /\ u[2] < 57344
         THEN HasUnpairedSurrogate(SubSeq(u, 3, Len(u)))
    ELSE IF u[1] >= 55296 /\ u[1] < 57344 THEN TRUE
    ELSE HasUnpairedSurrogate(Tail(u))

\* the input was one TwoByteString, it was decoded and the String serialized
ReencodedTwoByteString ==
    /\ orig = <<>> /\ dstate = "done" /\ fed = 0 /\ calls = 1 /\ estate = "done"
    /\ Len(tagsRead) = 1 /\ ReadATwoByteString /\ ev.err = NoErr
    /\ DeclaredByteLength.err = NoErr /\ FitsIn(DeclaredByteLength.val, 7)

\* the code units the input carries
InputUnits == CodeUnits(PayloadStart, BitsToNat(DeclaredByteLength.val))

\* the code units of the bytes b
UnitsOfBytes(b) == [i \in 1..(Len(b) \div 2) |-> b[2 * i - 1] + 256 * b[2 * i]]

\* C24: an unpaired UTF-16 surrogate code unit in a TwoByteString survives
\* decode and a following encode unchanged: the re-encoded payload carries the
\* code units of the input, the surrogate is neither replaced by U+FFFD nor
\* dropped.
C24_UnpairedSurrogateSurvives ==
    (ReencodedTwoByteString /\ HasUnpairedSurrogate(InputUnits))
    => LET out == outs[1]
           n == 2 * Len(InputUnits) IN
       /\ Len(out) >= 4 + n
       /\ out[3] = tagTwoByteString /\ out[4] = n
       /\ UnitsOfBytes(SubSeq(out, Len(out) - n + 1, Len(out))) = InputUnits

\* the number of UTF-16 code units of a string of runes
RECURSIVE UnitCount(_)
UnitCount(s) == IF s = <<>> THEN 0 ELSE (IF Head(s) > 65535 THEN 2 ELSE 1) + UnitCount(Tail(s))

\* the string is written as a TwoByteString
IsTwoByte(s) == \E i \in 1..Len(s) : s[i] > 255

\* the bytes from offset b of the output are a TwoByteString of s whose payload
\* is aligned: the tag, the byte-length 2 * units, one 0x00 when the payload
\* would start at an odd offset, and the payload, which ends at offset e
AlignedTwoByteString(out, b, e, s) ==
    LET n == 2 * UnitCount(s)
        odd == (b + 2) % 2 = 1
        start == IF odd THEN b + 3 ELSE b + 2 IN
    /\ n < 128 /\ e = start + n /\ e <= Len(out)
    /\ out[b + 1] = tagTwoByteString /\ out[b + 2] = n
    /\ odd => out[b + 3] = 0
    /\ start % 2 = 0 /\ e % 2 = 0
    /\ Utf16Decode(UnitsOfBytes(SubSeq(out, start + 1, e))) = s

\* the string a step of the encoder writes: <<s>>, or <<>> when it writes none
StringWritten ==
    IF EAt("writeValue", "enter") /\ ETop.v.typ = "TypeString" THEN <<ETop.v.data>>
    ELSE IF EAt("writeObject", "loop") /\ estate' = "running" /\ Len(estack') > Len(estack)
    THEN <<CHOOSE k \in ETop.rest : k \notin estack'[Len(estack)].rest>>
    ELSE <<>>

\* a step that writes a TwoByteString writes it aligned
EncoderAligns ==
    (StringWritten # <<>> /\ IsTwoByte(StringWritten[1]))
    => AlignedTwoByteString(buf', Len(buf), Len(buf'), StringWritten[1])

\* the decoder, reading what the encoder returned, finds the payload of every
\* TwoByteString where the encoder put it and skips the pad byte, no more
DecoderSkipsThePad ==
    (fed >= 1 /\ ReadATwoByteString)
    => /\ ev.err = NoErr /\ DeclaredByteLength.err = NoErr
       /\ AlignedTwoByteString(data, ev.at - 1, ev.end, ev.val.data)

\* C25: a TwoByteString whose payload would start at an odd offset of the
\* output gets exactly one 0x00 byte after the length varint, so that the
\* payload starts and ends at an even offset; the declared byte-length is twice
\* the number of UTF-16 code units and does not count the pad; the decoder,
\* reading the same bytes, skips exactly that pad byte.
C25_TwoByteStringAlignment == [](DecoderSkipsThePad) /\ [][EncoderAligns]_vars

\* the decoder has skipped the pad byte of a TwoByteString the encoder wrote
C25_Witness ==
    /\ fed = 1 /\ dstate = "done" /\ ReadATwoByteString /\ ev.err = NoErr
    /\ ev.at % 2 = 0 /\ data[ev.at + 2] = 0 /\ ev.end = ev.at + 2 + data[ev.at + 1]

\* the flag letters of the bitfield f, in the order g, i, m, s, u, y
LettersOf(f) ==
    LET bit(k) == (f \div (2 ^ k)) % 2
        l(k, c) == IF bit(k) = 1 THEN <<c>> ELSE <<>> IN
    l(0, 103) \o l(1, 105) \o l(2, 109) \o l(3, 115) \o l(4, 117) \o l(5, 121)

\* the input was one RegExp whose flag bitfield is its last byte, and it was decoded
DecodedARegExp ==
    /\ orig = <<>> /\ fed = 0 /\ dstate = "done" /\ result.typ = "TypeRegExp"
    /\ data[3] = tagRegExp /\ data[Len(data)] < 128

\* a RegExp was serialized and the output decoded
ReencodedARegExp ==
    /\ fed = 1 /\ calls = 1 /\ arg.typ = "TypeRegExp"
    /\ dstate \in {"done", "failed", "panicked"}

\* C26: decoding a RegExp maps the flag bits 1, 2, 4, 8, 16, 32 to the letters
\* g, i, m, s, u, y in that order, encoding maps each letter back to its bit,
\* and for every subset of the six flags Deserialize(Serialize(r)) has the
\* pattern and the flag string of r.
C26_RegExpFlagsRoundTrip ==
    /\ DecodedARegExp => heap[result.data[1]].Flags = LettersOf(data[Len(data)])
    /\ (DecodedARegExp /\ calls = 1 /\ estate = "done")
       => outs[1][Len(outs[1])] = data[Len(data)] % 64
    /\ ReencodedARegExp
       => /\ dstate = "done" /\ result.typ = "TypeRegExp"
          /\ heap[result.data[1]].Pattern = heap[arg.data[1]].Pattern
          /\ heap[result.data[1]].Flags = heap[arg.data[1]].Flags

\* the letter that opens an Error of the kind name: 'm' for Error, the type
\* letter and 'm' for the subclasses
KindLetters(name) ==
    CASE name = "Error" -> <<109>>
      [] name = "EvalError" -> <<69, 109>>
      [] name = "RangeError" -> <<82, 109>>
      [] name = "ReferenceError" -> <<70, 109>>
      [] name = "SyntaxError" -> <<83, 109>>
      [] name = "TypeError" -> <<84, 109>>
      [] name = "URIError" -> <<85, 109>>

\* a string of at most 127 Latin-1 characters as a OneByteString
OneByteStringOf(s) == <<34, Len(s)>> \o s

\* the bytes of a cause that is an Error or a String, and of an Error:
\* 'r', the kind and the message, 's' + stack iff the stack is not empty,
\* 'c' + cause iff there is a cause, '.'
RECURSIVE ErrorBytes(_, _)
ErrorBytes(h, v) ==
    IF v.typ = "TypeString" THEN OneByteStringOf(v.data)
    ELSE LET c == h[v.data[1]] IN
         <<114>> \o KindLetters(c.Name) \o OneByteStringOf(c.Message)
         \o (IF c.Stack # <<>> THEN <<115>> \o OneByteStringOf(c.Stack) ELSE <<>>)
         \o (IF c.Cause # <<>> THEN <<99>> \o ErrorBytes(h, c.Cause[1]) ELSE <<>>)
         \o <<46>>

\* v and w are Errors of the same kind, message, stack and cause, or the same String
RECURSIVE SameError(_, _, _)
SameError(h, v, w) ==
    IF v.typ # "TypeError" \/ w.typ # "TypeError" THEN v = w
    ELSE LET c == h[v.data[1]]
             d == h[w.data[1]] IN
         /\ c.Name = d.Name /\ c.Message = d.Message /\ c.Stack = d.Stack
         /\ Len(c.Cause) = Len(d.Cause)
         /\ c.Cause # <<>> => SameError(h, c.Cause[1], d.Cause[1])

\* v is an Error whose causes, as far as they go, are Errors or Strings
RECURSIVE ErrorChain(_, _)
ErrorChain(h, v) ==
    /\ v.typ = "TypeError"
    /\ LET c == h[v.data[1]] IN
       c.Cause # <<>> => (c.Cause[1].typ = "TypeString" \/ ErrorChain(h, c.Cause[1]))

\* C27: for each of the seven error kinds the encoder writes 'r', then 'm' +
\* message for Error or the type letter + 'm' + message for the subclasses,
\* then 's' + stack iff the stack is not empty, then 'c' + cause iff a cause is
\* present, then '.'; decoding that output stops at that '.' and returns an
\* Error of the same kind, message, stack and cause.
C27_ErrorRoundTrip ==
    /\ (orig = <<>> /\ calls = 1 /\ estate # "running" /\ ErrorChain(heap, arg))
       => (estate = "done" /\ outs[1] = <<255, 15>> \o ErrorBytes(heap, arg))
    /\ (fed = 1 /\ calls = 1 /\ ErrorChain(heap, arg)
        /\ dstate \in {"done", "failed", "panicked"})
       => /\ dstate = "done" /\ pos = Len(data) /\ data[pos] = 46
          /\ SameError(heap, result, arg)

\* ------------------------------------------------------------------------
\* C28: one Serializer used for several calls
\* ------------------------------------------------------------------------
\* the bytes seen through the slice the k-th call returned
ReturnedBytes(k) == SubSeq(writer, 1, returned[k].n)

\* what Serialize(v) of the package returns for v: one header and v's encoding
PayloadOf(v) == writeHeader \o writeLeaf(Len(writeHeader), v, heap).bytes

EveryPayloadIsItsValuesOnly ==
    \A k \in 1..Len(returned) :
        returned[k].err = NoErr => ReturnedBytes(k) = PayloadOf(returned[k].v)

EarlierPayloadsAreKept ==
    \A k \in 1..Len(returned) :
        returned[k].err = NoErr =>
            SubSeq(writer', 1, returned[k].n) = ReturnedBytes(k)

\* C28: every call of the Serialize method of a Serializer returns one header
\* followed by the encoding of that call's value and nothing else, also when
\* the Serializer has been used before or an earlier call returned an error,
\* and a later call changes no byte an earlier call returned.
C28_OnePayloadPerCall ==
    [](EveryPayloadIsItsValuesOnly) /\ [][EarlierPayloadsAreKept]_vars

\* ------------------------------------------------------------------------
\* C29: varints of 64-bit values
\* ------------------------------------------------------------------------
\* the number of bits of u up to its highest 1 bit
BitsUsed(u) == IF u = Zero64 THEN 0 ELSE CHOOSE k \in 1..64 : u[k] = 1 /\ FitsIn(u, k)

\* WriteVarint(u) wrote ceil(bits_used / 7) bytes, one for 0
WrittenLength ==
    wrote # <<>> =>
        Len(wbuf) = IF wrote[1] = Zero64 THEN 1 ELSE (BitsUsed(wrote[1]) + 6) \div 7

\* ReadVarint on the bytes of WriteVarint(u) returns u and has read them all
ReadsBackWhatWasWritten ==
    rlast.op = "ReadVarint" /\ rof # <<>> /\ rlast.from = Zero64 =>
        /\ rlast.err = NoErr
        /\ rlast.val = rof[1]
        /\ rpos = NatToBits(Len(rdata), 64)

\* the last call was a ReadVarint at cursor p of a varint that goes on to a
\* 10th byte
ReadATenthByte(p) ==
    /\ rlast.op = "ReadVarint" /\ rlast.from = NatToBits(p, 64)
    /\ p + 10 <= Len(rdata)
    /\ \A i \in 1..9 : rdata[p + i] >= 128

TenthByteIsChecked ==
    \A p \in 0..Len(rdata) :
        ReadATenthByte(p) /\ rdata[p + 10] \div 2 # 0 => rlast.err = ErrVarintOverflow

\* C29: ReadVarint returns u from the bytes of WriteVarint(u) for every 64-bit
\* u, these bytes are ceil(bits_used / 7) many (one for 0), and an encoding
\* whose 10th byte has a bit other than the lowest set, the continuation bit
\* included, fails with ErrVarintOverflow.
C29_VarintIs64Bit == WrittenLength /\ ReadsBackWhatWasWritten /\ TenthByteIsChecked

\* the largest uint64 has been written as ten bytes and read back
C29_Witness ==
    /\ rlast.op = "ReadVarint" /\ rof = <<Ones(64)>>
    /\ Len(rdata) = 10 /\ rlast.val = Ones(64)

\* ------------------------------------------------------------------------
\* C30: the cursor of ReadBytes and Skip
\* ------------------------------------------------------------------------
\* the cursor is a position of the input: 0 <= r.pos <= len(r.data)
CursorInBounds ==
    /\ ~IsNegative(rpos) /\ FitsIn(rpos, 30)
    /\ BitsToNat(rpos) <= Len(rdata)

\* p + k > n, the sum taken in the integers; k a non-negative int
RunsPastTheEnd(p, k, n) == ~FitsIn(k, 30) \/ p + BitsToNat(k) > n

\* a step that is a call of ReadBytes(k) or Skip(k): it fails with
\* ErrUnexpectedEOF and leaves the cursor when p + k > n, and moves the cursor
\* by k otherwise
CursorStep ==
    nops' = nops + 1 /\ rlast'.op \in {"ReadBytes", "Skip"} /\ CursorInBounds =>
        IF RunsPastTheEnd(BitsToNat(rpos), rlast'.k, Len(rdata))
        THEN rlast'.err = ErrUnexpectedEOF /\ rpos' = rpos
        ELSE rlast'.err = NoErr /\ rpos' = AddBits(rpos, rlast'.k)

\* C30: with cursor p and input length n, ReadBytes(k) and Skip(k) return
\* ErrUnexpectedEOF and leave p unchanged whenever p + k > n, for every k from
\* 0 to the largest int and with the sum not wrapping; otherwise they advance
\* p by exactly k; so 0 <= p <= n holds after every Reader call.
C30_CursorStaysInBounds == [](rstate # "none" => CursorInBounds) /\ [][CursorStep]_vars

====
